---------------------------- MODULE Spec2Model ----------------------------
(***************************************************************************)
(* RTP-MIDI session endpoint (class CRTP_MIDI): session state machine,     *)
(* timer, socket draining, outbound MIDI ring.                             *)
(*                                                                         *)
(* One endpoint is a record holding the members of CRTP_MIDI under their   *)
(* source names.  Every public method is one action; RunSession is one     *)
(* action that performs the whole tick (timer, draining of both sockets,   *)
(* refusal handling, initiator automaton, RTP emission, keep-alive, loss   *)
(* detection).                                                             *)
(*                                                                         *)
(* Time scale.  The source arms its timer with 1, 100, 1000, 1500, 2000,   *)
(* 5000 and 10000 ticks.  The definitions Timer* keep the order of these   *)
(* durations on a shorter scale, and the ring and payload sizes are        *)
(* likewise shortened; each such definition gives the source value in its  *)
(* comment.  Counters of the protocol (12 invitations, 16 and 4 keep-alive *)
(* credits, 5 fast sync sequences) keep their source values.               *)
(***************************************************************************)
EXTENDS Integers, Sequences, FiniteSets, TLC

VARIABLES
    ep,       \* ep[e]: the members of endpoint e (class CRTP_MIDI)
    ctrlQ,    \* ctrlQ[e]: datagrams waiting on e's control socket
    dataQ,    \* dataQ[e]: datagrams waiting on e's data socket
    last,     \* the last observed operation: its name, the session state
              \* before it, the datagrams it read and sent, its result
    hist,     \* history of the run: datagrams put on the wire, invitations
              \* counted, MIDI bytes accepted and emitted
    thr,      \* the producer and consumer threads of the ring, step by step
    turn      \* the endpoint whose RunSession is called next (two endpoints)

vars == <<ep, ctrlQ, dataQ, last, hist, thr, turn>>

-----------------------------------------------------------------------------
(* Session states, RTP_MIDI.h:57-68 *)
SESSION_CLOSED == "CLOSED"
SESSION_INVITE_CONTROL == "INVITE_CTRL"
SESSION_INVITE_DATA == "INVITE_DATA"
SESSION_CLOCK_SYNC0 == "CLOCK_SYNC0"
SESSION_CLOCK_SYNC1 == "CLOCK_SYNC1"
SESSION_OPENED == "OPENED"
SESSION_WAIT_INVITE_CTRL == "WAIT_INVITE_CTRL"
SESSION_WAIT_INVITE_DATA == "WAIT_INVITE_DATA"
SESSION_WAIT_CLOCK_SYNC == "WAIT_CLOCK_SYNC"

(* Program constants *)
InviteCountLimit == 12      \* RunSession: if (InviteCount > 12)
TimeOutRemoteStart == 16    \* InitiateSession / RestartSession: TimeOutRemote=16
TimeOutRemoteReload == 4    \* RunSession: TimeOutRemote = 4
SyncSequenceFast == 5       \* RunSession: if (SyncSequenceCounter <= 5)
ClockStep == 10             \* RunSession: TimeCounter += 10
TimerFirst == 1             \* InitiateSession: PrepareTimerEvent(1)
K16 == 65536                \* unsigned short RTPSequence
LatencyUnknown == -1        \* CRTP_MIDI: MeasuredLatency = 0xFFFFFFFF

(* Durations on the model's time scale (source value in ticks) *)
TimerInviteData == 3        \* 100   : after IN is sent on the data port
TimerInvite == 4            \* 1000  : invitation retry, RestartSession
TimerSyncFast == 5          \* 1500  : keep-alive, first sync sequences
TimerWaitClockSync == 6     \* 2000  : listener waiting for CK2
TimerWaitInviteData == 7    \* 5000  : listener waiting for IN on data
TimerSyncSlow == 8          \* 10000 : keep-alive, later sync sequences

(* Sizes on the model's scale (source value) *)
MIDI_CHAR_FIFO_SIZE == 4    \* 2048 : slots of RTPStreamQueue.FIFO
MAX_RTP_LOAD == 2           \* 1024 : bytes of TLongMIDIPayload.MIDIList
MAX_SESSION_NAME_LEN == 3   \* 64   : bytes of SessionName

(* Bounds of the model *)
ClockTicks == 2             \* TimeCounter is kept modulo ClockStep*ClockTicks
MaxQueue == 1               \* datagrams arriving between two calls of RunSession
MaxBurst == 2               \* datagrams of one burst read by one RunSession
MaxInvites == 2             \* RunSession is not called with InviteCount beyond it
MaxCtrlInvites == 14        \* invitations on the control port before the OK
MaxBlock == 3               \* longest block given to SendRTPMIDIBlock
ByteKinds == 3              \* distinct values of the MIDI bytes
MaxAccepted == 4            \* bytes accepted by SendRTPMIDIBlock in one run
MaxProduced == 2            \* bytes offered by the producer thread in one run
MaxHist == 8                \* datagrams kept in the history of the wire
OpenWithin == 12            \* calls of RunSession, on A and B together, within
                            \* which the handshake is followed

(* TimeCounter is an unsigned int that wraps at 2^32.  The model lets it   *)
(* wrap at ClockModulus where the clock is observed, and at ClockStep      *)
(* (the counter stays 0) where it is not.                                  *)
ClockModulus == ClockStep * ClockTicks
ClockUnobserved == ClockStep

-----------------------------------------------------------------------------
(* Hosts and ports.  Each host binds control port CtrlPort and data port   *)
(* DataPort.  IP 0 is "no partner".                                        *)
Endpoints == {"A", "B"}
IPOf(e) == IF e = "A" THEN 1 ELSE 2
Peer(e) == IF e = "A" THEN "B" ELSE "A"
OtherIP == 3
CtrlPort == 5003            \* DEFAULT_RTP_CTRL_PORT
DataPort == 5004            \* DEFAULT_RTP_DATA_PORT
Bytes == 1..ByteKinds
GarbageByte == 0

(* unsigned int members are written in two's complement, so that          *)
(* 0xFFFFFFFF is -1 and v * 0xFFFFFFFF is -v; the values of the model stay *)
(* far from 2^31, where the two readings of + and - agree.                 *)
Sub32(a, b) == a - b
Mul32ByAllOnes(v) == 0 - v

-----------------------------------------------------------------------------
(* Datagrams.  cmd is the two-letter session command ("IN","OK","NO","BY", *)
(* "CK","RS"), "RTP" for the 0x80 0x61 signature, "??" for a 0xFF 0xFF     *)
(* packet with an unknown command, "XX" for any other signature and "ZERO" *)
(* for an empty datagram.  An RTP datagram carries its MIDI list (the      *)
(* bytes the LEN field of its MIDI header counts) and the Z bit of that    *)
(* header: the list starts with a delta-time.                              *)
NoTS == [h1 |-> 0, l1 |-> 0, h2 |-> 0, l2 |-> 0, h3 |-> 0, l3 |-> 0]

Datagram(sock, cmd, sip, sport, dip, dport, token, ssrc, count, ts, seq, list) ==
    [sock |-> sock, cmd |-> cmd, ip |-> sip, port |-> sport,
     dip |-> dip, dport |-> dport, token |-> token, ssrc |-> ssrc,
     count |-> count, ts |-> ts, seq |-> seq, stamp |-> 0, list |-> list,
     z |-> FALSE, name |-> <<>>]

LocalPort(sock) == IF sock = "ctrl" THEN CtrlPort ELSE DataPort

(* m is the running state of one method call: m.s the members, m.out the   *)
(* datagrams emitted so far by the call, m.cb the calls of RTPCallback it  *)
(* has made so far.  m.CharSigned tells whether plain char is signed in    *)
(* the build (see GetDeltaTime); it matters only for delta-times of more   *)
(* than two bytes, and the specifications that deliver such lists run the  *)
(* call both ways.                                                         *)
Emit(m, d) == [m EXCEPT !.out = Append(@, d)]


-----------------------------------------------------------------------------
(* CRTP_MIDI::CRTP_MIDI.  Members the constructor leaves unset             *)
(* (InitiatorToken, SSRC, RTPSequence, LastRTPCounter, LastFeedbackCounter,*)
(* TS1H..TS3L, the FIFO bytes) are written by InitiateSession or by the    *)
(* packet handlers before any read; they start at 0 here.  LocalClock is   *)
(* a public member that no method ever sets: RunSession adds to whatever   *)
(* value the object's memory held, which is the parameter here.            *)
(* RTPRunningStatus is not set by the constructor either; it is read only  *)
(* when a MIDI list arrives, and the specification that delivers MIDI      *)
(* lists starts it from UninitStatus.  The SYSEX buffer has SYXInSize      *)
(* bytes (constructor argument, at least 1 here); the object is            *)
(* constructed with a callback.                                            *)
UninitValues == {0, 3}
SYXInSize == 4              \* bytes of InSYSEXBuffer

Constructed(LocalClock) ==
    [LocalClock |-> LocalClock, SessionName |-> <<>>,
     RemoteIPToInvite |-> 0, PartnerControlPort |-> 0, PartnerDataPort |-> 0,
     SocketsOpen |-> FALSE,
     SessionState |-> SESSION_CLOSED,
     SessionPartnerIP |-> 0,
     EndpointLocked |-> TRUE,
     TimerRunning |-> FALSE, EventTime |-> 0,
     InviteCount |-> 0, TimeCounter |-> 0, SyncSequenceCounter |-> 0,
     MeasuredLatency |-> LatencyUnknown,
     IsInitiatorNode |-> TRUE,
     TimeOutRemote |-> TimeOutRemoteReload,
     ConnectionLost |-> FALSE, PeerClosedSession |-> FALSE,
     ConnectionRefused |-> FALSE,
     RTPStreamQueue |-> [FIFO |-> [i \in 0..(MIDI_CHAR_FIFO_SIZE - 1) |-> 0],
                         ReadPtr |-> 0, WritePtr |-> 0],
     InitiatorToken |-> 0, SSRC |-> 0, RTPSequence |-> 0,
     LastRTPCounter |-> 0, LastFeedbackCounter |-> 0,
     TS |-> NoTS,
     RTPCallback |-> TRUE,
     RTPRunningStatus |-> 0, IncomingThirdByte |-> FALSE,
     FullInMidiMsg |-> [i \in 0..2 |-> 0],
     InSYSEXBufferSize |-> SYXInSize,
     InSYSEXBuffer |-> [i \in 0..(SYXInSize - 1) |-> 0],
     InSYSEXBufferPtr |-> 0, SegmentSYSEXInput |-> FALSE,
     SYSEX_RTPActif |-> FALSE, InSYSEXOverflow |-> FALSE]

Machine(s, cq, dq) ==
    [s |-> s, out |-> <<>>, cb |-> <<>>, cq |-> cq, dq |-> dq,
     CharSigned |-> FALSE,
     accC |-> FALSE, rejC |-> FALSE, accD |-> FALSE, rejD |-> FALSE,
     TimerEvent |-> FALSE, returned |-> FALSE]

(* sendto on a socket: nothing leaves while the sockets are closed *)
SendTo(m, d) == IF m.s.SocketsOpen THEN Emit(m, d) ELSE m

PrepareTimerEvent(m, TimeToWait) ==
    [m EXCEPT !.s.TimerRunning = TRUE, !.s.EventTime = TimeToWait]

(* RTP_MIDI_AppleProtocol.cpp *)
SendInvitation(m, e, DestControl) ==
    LET sock == IF DestControl THEN "ctrl" ELSE "data"
        port == IF DestControl THEN m.s.PartnerControlPort ELSE m.s.PartnerDataPort
        NameLen == Len(m.s.SessionName)
        Invit == Datagram(sock, "IN", IPOf(e), LocalPort(sock),
                          m.s.RemoteIPToInvite, port,
                          m.s.InitiatorToken, m.s.SSRC, 0, NoTS, 0, <<>>)
    IN SendTo(m, IF NameLen > 0
                   THEN [Invit EXCEPT !.name = m.s.SessionName \o <<0>>]
                   ELSE Invit)

SendBYCommand(m, e) ==
    SendTo(m, Datagram("ctrl", "BY", IPOf(e), CtrlPort,
                       m.s.SessionPartnerIP, m.s.PartnerControlPort,
                       m.s.InitiatorToken, m.s.SSRC, 0, NoTS, 0, <<>>))

SendInvitationReply_AlwaysOK(m, e, FromControlSocket, Accept, DestinationIP, DestinationPort) ==
    LET sock == IF FromControlSocket THEN "ctrl" ELSE "data"
    IN SendTo(m, Datagram(sock, "OK",
                          IPOf(e), LocalPort(sock), DestinationIP, DestinationPort,
                          m.s.InitiatorToken, m.s.SSRC, 0, NoTS, 0, <<>>))

SendInvitationReply(m, e, FromControlSocket, Accept, DestinationIP, DestinationPort) ==
    LET sock == IF FromControlSocket THEN "ctrl" ELSE "data"
    IN SendTo(m, Datagram(sock, IF Accept THEN "OK" ELSE "NO",
                          IPOf(e), LocalPort(sock), DestinationIP, DestinationPort,
                          m.s.InitiatorToken, m.s.SSRC, 0, NoTS, 0, <<>>))

SendSyncPacket(m, e, Count, ts) ==
    SendTo(m, Datagram("data", "CK", IPOf(e), DataPort,
                       m.s.SessionPartnerIP, m.s.PartnerDataPort,
                       0, m.s.SSRC, Count, ts, 0, <<>>))

SendFeedbackPacket(m, e, LastNumber) ==
    SendTo(m, Datagram("ctrl", "RS", IPOf(e), CtrlPort,
                       m.s.SessionPartnerIP, m.s.PartnerControlPort,
                       0, m.s.SSRC, 0, NoTS, LastNumber, <<>>))

-----------------------------------------------------------------------------
(* CRTP_MIDI::PartnerCloseSession *)
PartnerCloseSession_NoClear(m) ==
    [m EXCEPT !.s.TimerRunning = FALSE,
              !.s.SessionState = IF m.s.IsInitiatorNode
                                   THEN SESSION_CLOSED
                                   ELSE SESSION_WAIT_INVITE_CTRL,
              !.s.PeerClosedSession = TRUE]

PartnerCloseSession(m) ==
    [m EXCEPT !.s.TimerRunning = FALSE,
              !.s.SessionState = IF m.s.IsInitiatorNode
                                   THEN SESSION_CLOSED
                                   ELSE SESSION_WAIT_INVITE_CTRL,
              !.s.PeerClosedSession = TRUE,
              !.s.SessionPartnerIP = 0]

(* CRTP_MIDI::RestartSession *)
RestartSession_AnyRole(m) ==
    PrepareTimerEvent(
      [m EXCEPT !.s.SYSEX_RTPActif = FALSE,
                !.s.SegmentSYSEXInput = FALSE,
                !.s.InviteCount = 0,
                !.s.TimeOutRemote = TimeOutRemoteStart,
                !.s.IncomingThirdByte = FALSE,
                !.s.SessionState = SESSION_INVITE_CONTROL],
      TimerInvite)

RestartSession(m) ==
    IF ~m.s.IsInitiatorNode THEN m
    ELSE PrepareTimerEvent(
           [m EXCEPT !.s.SYSEX_RTPActif = FALSE,
                     !.s.SegmentSYSEXInput = FALSE,
                     !.s.InviteCount = 0,
                     !.s.TimeOutRemote = TimeOutRemoteStart,
                     !.s.IncomingThirdByte = FALSE,
                     !.s.SessionState = SESSION_INVITE_CONTROL],
           TimerInvite)

-----------------------------------------------------------------------------
(* CRTP_MIDI::GetDeltaTime, RTP_MIDI_Input.cpp.  BufPtr is the sequence of  *)
(* the buffer's bytes (0..255), ByteCtr the C index of the next byte (the  *)
(* byte BufPtr[ByteCtr + 1] of the sequence).  The local Data is a plain   *)
(* char: its conversion to unsigned int sign-extends where char is signed  *)
(* and not where it is unsigned, which the build decides; CharSigned tells *)
(* which.  unsigned int values are written in two's complement, as above:  *)
(* Shl7 and Add32 are << 7 and + on 32 bits.                               *)
HighBit == 128              \* 0x80
TwoTo24 == 16777216         \* 2^24: value << 7 becomes negative from here
TwoTo25 == 33554432         \* 2^25: value << 7 loses the bits from here up
MaxInt32 == 2147483647      \* 2^31 - 1

Shl7(value) ==
    LET low == value % TwoTo25
    IN IF low >= TwoTo24 THEN (low - TwoTo25) * HighBit ELSE low * HighBit

Add32(a, b) ==
    IF a > 0 /\ b > 0 /\ a > MaxInt32 - b
      THEN ((a - MaxInt32) - 1) + ((b - MaxInt32) - 1)
      ELSE a + b

CharToUnsigned(byte, CharSigned) ==
    IF CharSigned /\ byte >= HighBit THEN byte - 2 * HighBit ELSE byte

RECURSIVE DeltaTimeLoop(_, _, _, _, _)
DeltaTimeLoop(BufPtr, ByteCtr, value, ByteCount, CharSigned) ==
    LET Data == BufPtr[ByteCtr + 1]
        v1 == Add32(Shl7(value), CharToUnsigned(Data, CharSigned))
    IN IF Data >= HighBit /\ ByteCount + 1 <= 4
         THEN DeltaTimeLoop(BufPtr, ByteCtr + 1, v1, ByteCount + 1, CharSigned)
         ELSE [value |-> v1, ByteCtr |-> ByteCtr + 1]

GetDeltaTime(BufPtr, ByteCtr, CharSigned) ==
    LET value == BufPtr[ByteCtr + 1]
    IN IF value >= HighBit
         THEN DeltaTimeLoop(BufPtr, ByteCtr + 1, value % HighBit, 1, CharSigned)
         ELSE [value |-> value, ByteCtr |-> ByteCtr + 1]

-----------------------------------------------------------------------------
(* Inbound decoder, RTP_MIDI_Input.cpp.  MIDI bytes are 0..255.            *)
MIDI_SYSEX == 240           \* 0xF0
MIDI_EOX == 247             \* 0xF7
MIDI_CANCEL == 244          \* 0xF4
MIDI_REALTIME == 248        \* 0xF8
MIDI_TUNE_REQUEST == 246    \* 0xF6
MIDI_PROGRAM_CHANGE == 192  \* 0xC0
MIDI_PITCH_BEND == 224      \* 0xE0
MIDI_TIME_CODE == 241       \* 0xF1
MIDI_SONG_POSITION == 242   \* 0xF2
MIDI_SONG_SELECT == 243     \* 0xF3

(* CRTP_MIDI::initRTP_SYSEXBuffer *)
initRTP_SYSEXBuffer(m) ==
    [m EXCEPT !.s.InSYSEXBufferPtr = 0,
              !.s.SegmentSYSEXInput = FALSE,
              !.s.SYSEX_RTPActif = FALSE,
              !.s.InSYSEXOverflow = FALSE]

(* CRTP_MIDI::storeRTP_SYSEXData *)
storeRTP_SYSEXData(m, SysexData) ==
    LET m1 == [m EXCEPT !.s.InSYSEXBuffer[m.s.InSYSEXBufferPtr] = SysexData]
    IN IF m.s.InSYSEXBufferPtr < m.s.InSYSEXBufferSize - 1
         THEN [m1 EXCEPT !.s.InSYSEXBufferPtr = @ + 1]
         ELSE [m1 EXCEPT !.s.InSYSEXOverflow = TRUE]

(* A call of RTPCallback: DataSize bytes read from DataBlock at the time   *)
(* of the call, and the event time.                                        *)
Callback(DataSize, Block, LEventTime) ==
    [DataSize |-> DataSize,
     DataBlock |-> [i \in 1..DataSize |-> Block[i - 1]],
     DeltaTime |-> LEventTime]

(* CRTP_MIDI::sendRTP_SYSEXBuffer *)
sendRTP_SYSEXBuffer(m, LEventTime) ==
    IF ~m.s.RTPCallback THEN m
    ELSE [m EXCEPT !.cb = Append(@, Callback(m.s.InSYSEXBufferPtr,
                                             m.s.InSYSEXBuffer, LEventTime))]

(* CRTP_MIDI::sendMIDIToClient *)
sendMIDIToClient(m, NumBytes, LEventTime) ==
    IF ~m.s.RTPCallback THEN m
    ELSE [m EXCEPT !.cb = Append(@, Callback(NumBytes, m.s.FullInMidiMsg,
                                             LEventTime))]

(* CRTP_MIDI::GenerateMIDIEvent, the part after the SYSEX processing: one  *)
(* byte that is a status or a data byte of a MIDI message.  The value is   *)
(* the machine and whether GenerateMIDIEvent returns (it goes on to the    *)
(* next byte otherwise).                                                   *)
DecodeMIDIByte_StatusOnce(m, DataByte, LEventTime) ==
    LET Return(mm) == [m |-> mm, return |-> TRUE]
        NextByte(mm) == [m |-> mm, return |-> FALSE]
        RS == m.s.RTPRunningStatus
    IN IF DataByte >= HighBit THEN
           IF DataByte >= MIDI_REALTIME THEN
               Return(sendMIDIToClient(
                   [m EXCEPT !.s.FullInMidiMsg[0] = DataByte], 1, LEventTime))
           ELSE
               LET m1 == [m EXCEPT !.s.RTPRunningStatus = DataByte,
                                   !.s.FullInMidiMsg[0] = DataByte,
                                   !.s.IncomingThirdByte = FALSE]
               IN IF DataByte = MIDI_TUNE_REQUEST
                    THEN Return(sendMIDIToClient(m1, 1, LEventTime))
                    ELSE NextByte(m1)
       ELSE IF m.s.IncomingThirdByte THEN
           Return(sendMIDIToClient(
               [m EXCEPT !.s.FullInMidiMsg[0] = RS,
                         !.s.FullInMidiMsg[2] = DataByte,
                         !.s.RTPRunningStatus = 0,
                         !.s.IncomingThirdByte = FALSE], 3, LEventTime))
       ELSE IF RS = 0 THEN Return(m)
       ELSE IF RS < MIDI_PROGRAM_CHANGE THEN
           NextByte([m EXCEPT !.s.IncomingThirdByte = TRUE,
                              !.s.FullInMidiMsg[1] = DataByte])
       ELSE IF RS < MIDI_PITCH_BEND THEN
           Return(sendMIDIToClient(
               [m EXCEPT !.s.FullInMidiMsg[0] = RS,
                         !.s.FullInMidiMsg[1] = DataByte], 2, LEventTime))
       ELSE IF RS < MIDI_SYSEX THEN
           NextByte([m EXCEPT !.s.IncomingThirdByte = TRUE,
                              !.s.FullInMidiMsg[1] = DataByte])
       ELSE IF RS = MIDI_SONG_POSITION THEN
           NextByte([m EXCEPT !.s.RTPRunningStatus = 0,
                              !.s.IncomingThirdByte = TRUE,
                              !.s.FullInMidiMsg[1] = DataByte])
       ELSE IF RS = MIDI_TIME_CODE \/ RS = MIDI_SONG_SELECT THEN
           Return([sendMIDIToClient(
                     [m EXCEPT !.s.FullInMidiMsg[0] = RS,
                               !.s.FullInMidiMsg[1] = DataByte], 2, LEventTime)
                   EXCEPT !.s.RTPRunningStatus = 0])
       ELSE Return([m EXCEPT !.s.RTPRunningStatus = 0])

DecodeMIDIByte(m, DataByte, LEventTime) ==
    LET Return(mm) == [m |-> mm, return |-> TRUE]
        NextByte(mm) == [m |-> mm, return |-> FALSE]
        RS == m.s.RTPRunningStatus
    IN IF DataByte >= HighBit THEN
           IF DataByte >= MIDI_REALTIME THEN
               Return(sendMIDIToClient(
                   [m EXCEPT !.s.FullInMidiMsg[0] = DataByte], 1, LEventTime))
           ELSE
               LET m1 == [m EXCEPT !.s.RTPRunningStatus = DataByte,
                                   !.s.FullInMidiMsg[0] = DataByte,
                                   !.s.IncomingThirdByte = FALSE]
               IN IF DataByte = MIDI_TUNE_REQUEST
                    THEN Return(sendMIDIToClient(m1, 1, LEventTime))
                    ELSE NextByte(m1)
       ELSE IF m.s.IncomingThirdByte THEN
           Return(sendMIDIToClient(
               [m EXCEPT !.s.FullInMidiMsg[0] = RS,
                         !.s.FullInMidiMsg[2] = DataByte,
                         !.s.IncomingThirdByte = FALSE], 3, LEventTime))
       ELSE IF RS = 0 THEN Return(m)
       ELSE IF RS < MIDI_PROGRAM_CHANGE THEN
           NextByte([m EXCEPT !.s.IncomingThirdByte = TRUE,
                              !.s.FullInMidiMsg[1] = DataByte])
       ELSE IF RS < MIDI_PITCH_BEND THEN
           Return(sendMIDIToClient(
               [m EXCEPT !.s.FullInMidiMsg[0] = RS,
                         !.s.FullInMidiMsg[1] = DataByte], 2, LEventTime))
       ELSE IF RS < MIDI_SYSEX THEN
           NextByte([m EXCEPT !.s.IncomingThirdByte = TRUE,
                              !.s.FullInMidiMsg[1] = DataByte])
       ELSE IF RS = MIDI_SONG_POSITION THEN
           NextByte([m EXCEPT !.s.RTPRunningStatus = 0,
                              !.s.IncomingThirdByte = TRUE,
                              !.s.FullInMidiMsg[1] = DataByte])
       ELSE IF RS = MIDI_TIME_CODE \/ RS = MIDI_SONG_SELECT THEN
           Return([sendMIDIToClient(
                     [m EXCEPT !.s.FullInMidiMsg[0] = RS,
                               !.s.FullInMidiMsg[1] = DataByte], 2, LEventTime)
                   EXCEPT !.s.RTPRunningStatus = 0])
       ELSE Return([m EXCEPT !.s.RTPRunningStatus = 0])

(* CRTP_MIDI::GenerateMIDIEvent.  Buffer is the sequence of the bytes from *)
(* the start of the MIDI list, ByteCtr the C index of the next byte; the   *)
(* value is the machine and the byte counter at the return.                *)
(* Real-time byte met inside a SYSEX segment (lines 185-191): it is given  *)
(* to the callback alone and the scan goes on with the next byte.          *)
RealTimeInSegment_Stored(m, DataByte, LEventTime) ==
    storeRTP_SYSEXData(
        sendMIDIToClient([m EXCEPT !.s.FullInMidiMsg[0] = DataByte],
                         1, LEventTime), DataByte)

RealTimeInSegment(m, DataByte, LEventTime) ==
    sendMIDIToClient([m EXCEPT !.s.FullInMidiMsg[0] = DataByte], 1, LEventTime)

RECURSIVE GenerateMIDIEvent(_, _, _, _, _)
GenerateMIDIEvent(m, Buffer, ByteCtr, TailleBloc, LEventTime) ==
    IF ~(ByteCtr < TailleBloc) THEN [m |-> m, ByteCtr |-> ByteCtr]
    ELSE
    LET DataByte == Buffer[ByteCtr + 1]
        Return(mm) == [m |-> mm, ByteCtr |-> ByteCtr + 1]
        NextByte(mm) ==
            GenerateMIDIEvent(mm, Buffer, ByteCtr + 1, TailleBloc, LEventTime)
        Other(mm) ==
            LET r == DecodeMIDIByte(mm, DataByte, LEventTime)
            IN IF r.return THEN Return(r.m) ELSE NextByte(r.m)
    IN IF DataByte = MIDI_SYSEX /\ ~m.s.SYSEX_RTPActif THEN
           NextByte(storeRTP_SYSEXData(
               [m EXCEPT !.s.SYSEX_RTPActif = TRUE,
                         !.s.SegmentSYSEXInput = TRUE], MIDI_SYSEX))
       ELSE IF ~m.s.SYSEX_RTPActif THEN Other(m)
       ELSE IF DataByte = MIDI_SYSEX THEN
           NextByte([m EXCEPT !.s.SegmentSYSEXInput = FALSE])
       ELSE IF DataByte = MIDI_EOX THEN
           IF m.s.SegmentSYSEXInput
             THEN Return(initRTP_SYSEXBuffer(
                      sendRTP_SYSEXBuffer(storeRTP_SYSEXData(m, MIDI_EOX),
                                          LEventTime)))
             ELSE NextByte([m EXCEPT !.s.SegmentSYSEXInput = TRUE])
       ELSE IF DataByte = MIDI_CANCEL THEN Return(initRTP_SYSEXBuffer(m))
       ELSE IF ~m.s.SegmentSYSEXInput THEN Other(m)
       ELSE IF DataByte < HighBit THEN NextByte(storeRTP_SYSEXData(m, DataByte))
       ELSE IF DataByte >= MIDI_REALTIME THEN
           NextByte(RealTimeInSegment(m, DataByte, LEventTime))
       ELSE Other(initRTP_SYSEXBuffer(m))

(* CRTP_MIDI::ProcessIncomingRTP.  TailleListeMIDI is the LEN field of the *)
(* MIDI header, which counts the bytes of p.list, and PresenceFirstDelta   *)
(* its Z bit.  The reception buffer goes on after the list (with the       *)
(* journal, or with what an earlier datagram left there); GetDeltaTime     *)
(* reads up to four bytes of it when the list ends inside a delta-time.    *)
AfterList == <<GarbageByte, GarbageByte, GarbageByte, GarbageByte>>

RECURSIVE ScanMIDIList(_, _, _, _)
ScanMIDIList(m, PtrListeMIDI, CtrByteMIDI, TailleListeMIDI) ==
    IF ~(CtrByteMIDI < TailleListeMIDI) THEN m
    ELSE LET d == GetDeltaTime(PtrListeMIDI, CtrByteMIDI, m.CharSigned)
             g == IF d.ByteCtr < TailleListeMIDI
                    THEN GenerateMIDIEvent(m, PtrListeMIDI, d.ByteCtr,
                                           TailleListeMIDI,
                                           Add32(d.value, m.s.LocalClock))
                    ELSE [m |-> m, ByteCtr |-> d.ByteCtr]
         IN ScanMIDIList(g.m, PtrListeMIDI, g.ByteCtr, TailleListeMIDI)

(* The value of CtrByteMIDI when ProcessIncomingRTP returns: the bytes of   *)
(* PtrListeMIDI at the offsets below it are those the call has read, by    *)
(* GetDeltaTime or by GenerateMIDIEvent, each of which reads every byte it *)
(* steps over.                                                             *)
RECURSIVE ScanEnd(_, _, _, _)
ScanEnd(m, PtrListeMIDI, CtrByteMIDI, TailleListeMIDI) ==
    IF ~(CtrByteMIDI < TailleListeMIDI) THEN CtrByteMIDI
    ELSE LET d == GetDeltaTime(PtrListeMIDI, CtrByteMIDI, m.CharSigned)
             g == IF d.ByteCtr < TailleListeMIDI
                    THEN GenerateMIDIEvent(m, PtrListeMIDI, d.ByteCtr,
                                           TailleListeMIDI,
                                           Add32(d.value, m.s.LocalClock))
                    ELSE [m |-> m, ByteCtr |-> d.ByteCtr]
         IN ScanEnd(g.m, PtrListeMIDI, g.ByteCtr, TailleListeMIDI)

LastCtrByteMIDI(m, PtrListeMIDI, TailleListeMIDI, PresenceFirstDelta) ==
    LET d == IF PresenceFirstDelta
               THEN GetDeltaTime(PtrListeMIDI, 0, m.CharSigned)
               ELSE [value |-> 0, ByteCtr |-> 0]
        g == IF d.ByteCtr < TailleListeMIDI
               THEN GenerateMIDIEvent(m, PtrListeMIDI, d.ByteCtr, TailleListeMIDI,
                                      Add32(d.value, m.s.LocalClock))
               ELSE [m |-> m, ByteCtr |-> d.ByteCtr]
    IN IF TailleListeMIDI > 0
         THEN ScanEnd(g.m, PtrListeMIDI, g.ByteCtr, TailleListeMIDI)
         ELSE 0

ProcessIncomingRTP(m, p) ==
    LET m0 == [m EXCEPT !.s.LastRTPCounter = p.seq]
        TailleListeMIDI == Len(p.list)
        PtrListeMIDI == p.list \o AfterList
        d == IF p.z THEN GetDeltaTime(PtrListeMIDI, 0, m.CharSigned)
                    ELSE [value |-> 0, ByteCtr |-> 0]
        g == IF d.ByteCtr < TailleListeMIDI
               THEN GenerateMIDIEvent(m0, PtrListeMIDI, d.ByteCtr, TailleListeMIDI,
                                      Add32(d.value, m.s.LocalClock))
               ELSE [m |-> m0, ByteCtr |-> d.ByteCtr]
    IN IF TailleListeMIDI > 0
         THEN ScanMIDIList(g.m, PtrListeMIDI, g.ByteCtr, TailleListeMIDI)
         ELSE m0

(* CRTP_MIDI::ProcessControlSocket: one datagram p taken from the control  *)
(* socket.  The value is the machine after the call; the method's result   *)
(* (a packet has been received) is ControlReceived(p).                     *)
ControlReceived(p) == p.cmd # "ZERO"

ProcessControlPacket(m, e, p) ==
    IF p.cmd = "IN" THEN
        IF ~m.s.IsInitiatorNode THEN
            IF m.s.SessionState = SESSION_WAIT_INVITE_CTRL THEN
                LET m1 == [m EXCEPT !.s.InitiatorToken = p.token,
                                    !.s.SessionState = SESSION_WAIT_INVITE_DATA]
                    m2 == PrepareTimerEvent(m1, TimerWaitInviteData)
                    m3 == SendInvitationReply(m2, e, TRUE, TRUE, p.ip, p.port)
                IN [m3 EXCEPT !.s.SessionPartnerIP = p.ip,
                              !.s.PartnerControlPort = p.port]
            ELSE IF p.ip = m.s.SessionPartnerIP /\ p.port = m.s.PartnerControlPort THEN
                SendInvitationReply(PrepareTimerEvent(m, TimerWaitInviteData),
                                    e, TRUE, TRUE, p.ip, p.port)
            ELSE
                SendInvitationReply(m, e, TRUE, FALSE, p.ip, p.port)
        ELSE m
    ELSE IF p.cmd = "OK" THEN [m EXCEPT !.accC = TRUE]
    ELSE IF p.cmd = "NO" THEN [m EXCEPT !.rejC = TRUE]
    ELSE IF p.cmd = "BY" THEN
        IF p.ip = m.s.SessionPartnerIP THEN PartnerCloseSession(m) ELSE m
    ELSE m

(* CK handling of RunSession (data socket, sender is the partner) *)
ProcessSyncPacket_NoEcho(m, e, p) ==
    IF p.count = 0 THEN
        SendSyncPacket(m, e, 1, [NoTS EXCEPT !.l1 = m.s.TimeCounter,
                                             !.l2 = m.s.TimeCounter])
    ELSE IF p.count = 1 THEN
        LET m1 == [m EXCEPT !.s.TS.h1 = p.ts.h1, !.s.TS.l1 = p.ts.l1,
                            !.s.TS.h2 = p.ts.h2, !.s.TS.l2 = p.ts.l2,
                            !.s.MeasuredLatency = Sub32(m.s.TimeCounter, p.ts.l1),
                            !.s.TimeOutRemote = TimeOutRemoteReload]
            m2 == SendSyncPacket(m1, e, 2,
                    [NoTS EXCEPT !.h1 = m1.s.TS.h1, !.l1 = m1.s.TS.l1,
                                 !.h2 = m1.s.TS.h2, !.l2 = m1.s.TS.l2,
                                 !.l3 = m1.s.TimeCounter])
        IN IF m2.s.IsInitiatorNode /\ m2.s.SessionState = SESSION_CLOCK_SYNC1
             THEN [m2 EXCEPT !.s.TimeOutRemote = TimeOutRemoteReload,
                             !.s.SessionState = SESSION_OPENED]
             ELSE m2
    ELSE IF p.count = 2 THEN
        [m EXCEPT !.s.TS = p.ts,
                  !.s.MeasuredLatency = Sub32(m.s.TimeCounter, p.ts.l2),
                  !.s.TimeOutRemote = TimeOutRemoteReload,
                  !.s.SessionState = SESSION_OPENED]
    ELSE m

ProcessSyncPacket_OpenOnly(m, e, p) ==
    IF p.count = 0 THEN
        LET m1 == [m EXCEPT !.s.TS.h1 = p.ts.h1, !.s.TS.l1 = p.ts.l1]
        IN SendSyncPacket(m1, e, 1,
              [NoTS EXCEPT !.h1 = m1.s.TS.h1, !.l1 = m1.s.TS.l1,
                           !.l2 = m1.s.TimeCounter])
    ELSE IF p.count = 1 THEN
        LET m1 == [m EXCEPT !.s.TS.h1 = p.ts.h1, !.s.TS.l1 = p.ts.l1,
                            !.s.TS.h2 = p.ts.h2, !.s.TS.l2 = p.ts.l2,
                            !.s.MeasuredLatency = Sub32(m.s.TimeCounter, p.ts.l1),
                            !.s.TimeOutRemote = TimeOutRemoteReload]
            m2 == SendSyncPacket(m1, e, 2,
                    [NoTS EXCEPT !.h1 = m1.s.TS.h1, !.l1 = m1.s.TS.l1,
                                 !.h2 = m1.s.TS.h2, !.l2 = m1.s.TS.l2,
                                 !.l3 = m1.s.TimeCounter])
        IN IF m2.s.IsInitiatorNode /\ m2.s.SessionState = SESSION_CLOCK_SYNC1
             THEN [m2 EXCEPT !.s.TimeOutRemote = TimeOutRemoteReload,
                             !.s.SessionState = SESSION_OPENED]
             ELSE m2
    ELSE IF p.count = 2 THEN
        [m EXCEPT !.s.TS = p.ts,
                  !.s.MeasuredLatency = Sub32(m.s.TimeCounter, p.ts.l2),
                  !.s.SessionState = SESSION_OPENED]
    ELSE m

ProcessSyncPacket(m, e, p) ==
    IF p.count = 0 THEN
        LET m1 == [m EXCEPT !.s.TS.h1 = p.ts.h1, !.s.TS.l1 = p.ts.l1]
        IN SendSyncPacket(m1, e, 1,
              [NoTS EXCEPT !.h1 = m1.s.TS.h1, !.l1 = m1.s.TS.l1,
                           !.l2 = m1.s.TimeCounter])
    ELSE IF p.count = 1 THEN
        LET m1 == [m EXCEPT !.s.TS.h1 = p.ts.h1, !.s.TS.l1 = p.ts.l1,
                            !.s.TS.h2 = p.ts.h2, !.s.TS.l2 = p.ts.l2,
                            !.s.MeasuredLatency = Sub32(m.s.TimeCounter, p.ts.l1),
                            !.s.TimeOutRemote = TimeOutRemoteReload]
            m2 == SendSyncPacket(m1, e, 2,
                    [NoTS EXCEPT !.h1 = m1.s.TS.h1, !.l1 = m1.s.TS.l1,
                                 !.h2 = m1.s.TS.h2, !.l2 = m1.s.TS.l2,
                                 !.l3 = m1.s.TimeCounter])
        IN IF m2.s.IsInitiatorNode /\ m2.s.SessionState = SESSION_CLOCK_SYNC1
             THEN [m2 EXCEPT !.s.TimeOutRemote = TimeOutRemoteReload,
                             !.s.SessionState = SESSION_OPENED]
             ELSE m2
    ELSE IF p.count = 2 THEN
        [m EXCEPT !.s.TS = p.ts,
                  !.s.MeasuredLatency = Sub32(m.s.TimeCounter, p.ts.l2),
                  !.s.TimeOutRemote = TimeOutRemoteReload,
                  !.s.SessionState = SESSION_OPENED]
    ELSE m

(* RunSession, one datagram p taken from the data socket *)
ProcessDataPacket_AnySender(m, e, p) ==
    IF p.cmd = "ZERO" THEN m
    ELSE IF p.cmd = "RTP" THEN
        IF m.s.SessionState = SESSION_OPENED THEN ProcessIncomingRTP(m, p) ELSE m
    ELSE IF p.cmd = "CK" THEN ProcessSyncPacket(m, e, p)
    ELSE IF p.cmd = "IN" THEN
        LET m1 == PrepareTimerEvent(
                    [m EXCEPT !.s.SessionState = SESSION_WAIT_CLOCK_SYNC],
                    TimerWaitClockSync)
            m2 == SendInvitationReply(m1, e, FALSE, TRUE, p.ip, p.port)
        IN [m2 EXCEPT !.s.PartnerDataPort = p.port]
    ELSE IF p.cmd = "OK" THEN [m EXCEPT !.accD = TRUE]
    ELSE IF p.cmd = "NO" THEN [m EXCEPT !.rejD = TRUE]
    ELSE IF p.cmd = "BY" THEN PartnerCloseSession(m)
    ELSE m

ProcessDataPacket(m, e, p) ==
    IF p.cmd = "ZERO" \/ p.ip # m.s.SessionPartnerIP THEN m
    ELSE IF p.cmd = "RTP" THEN
        IF m.s.SessionState = SESSION_OPENED THEN ProcessIncomingRTP(m, p) ELSE m
    ELSE IF p.cmd = "CK" THEN ProcessSyncPacket(m, e, p)
    ELSE IF p.cmd = "IN" THEN
        LET m1 == PrepareTimerEvent(
                    [m EXCEPT !.s.SessionState = SESSION_WAIT_CLOCK_SYNC],
                    TimerWaitClockSync)
            m2 == SendInvitationReply(m1, e, FALSE, TRUE, p.ip, p.port)
        IN [m2 EXCEPT !.s.PartnerDataPort = p.port]
    ELSE IF p.cmd = "OK" THEN [m EXCEPT !.accD = TRUE]
    ELSE IF p.cmd = "NO" THEN [m EXCEPT !.rejD = TRUE]
    ELSE IF p.cmd = "BY" THEN PartnerCloseSession(m)
    ELSE m

(* The do ... while loop of RunSession: each round takes at most one       *)
(* datagram from the control socket, then at most one from the data        *)
(* socket, and the loop ends after a round that received nothing.  While   *)
(* the sockets are closed DataAvail finds nothing.                         *)
RECURSIVE DrainSockets(_, _)
DrainSockets(m, e) ==
    IF ~m.s.SocketsOpen THEN m
    ELSE
    LET gotC == m.cq # <<>>
        recvC == gotC /\ ControlReceived(Head(m.cq))
        m1 == IF gotC
                THEN ProcessControlPacket([m EXCEPT !.cq = Tail(@)], e, Head(m.cq))
                ELSE m
        gotD == m1.dq # <<>>
        m2 == IF gotD
                THEN ProcessDataPacket([m1 EXCEPT !.dq = Tail(@)], e, Head(m1.dq))
                ELSE m1
    IN IF recvC \/ gotD THEN DrainSockets(m2, e) ELSE m2

-----------------------------------------------------------------------------
(* CRTP_MIDI::GeneratePayload, run to completion: the bytes from ReadPtr   *)
(* up to the WritePtr read at entry, in FIFO order.  FullPayload is never  *)
(* set, so the loop ends only at the snapshot of WritePtr.                 *)
NextPtr(ptr) == IF ptr + 1 >= MIDI_CHAR_FIFO_SIZE THEN 0 ELSE ptr + 1

RECURSIVE DrainFIFO(_, _, _)
DrainFIFO(q, MIDIBlockEnd, MIDIList) ==
    IF q.ReadPtr = MIDIBlockEnd THEN [q |-> q, MIDIList |-> MIDIList]
    ELSE DrainFIFO([q EXCEPT !.ReadPtr = NextPtr(q.ReadPtr)], MIDIBlockEnd,
                   Append(MIDIList, q.FIFO[q.ReadPtr]))

GeneratePayload(q) == DrainFIFO(q, q.WritePtr, <<>>)

(* TLongMIDIPayload.MIDIList holds MAX_RTP_LOAD bytes.  Bytes written by   *)
(* GeneratePayload past its end land in the memory that follows the        *)
(* message on the stack of RunSession; sendto reads them back from there.  *)
(* Overrun is what the datagram carries in that case: the bytes as written *)
(* (kept) or bytes overwritten before sendto (~kept).                      *)
Overrun(MIDIList, kept) ==
    IF Len(MIDIList) <= MAX_RTP_LOAD \/ kept THEN MIDIList
    ELSE [i \in 1..Len(MIDIList) |->
            IF i <= MAX_RTP_LOAD THEN MIDIList[i] ELSE GarbageByte]

(* CRTP_MIDI::PrepareMessage and the sendto of RunSession *)
SendRTPMessage(m, e, MIDIList, kept) ==
    SendTo(m, [Datagram("data", "RTP", IPOf(e), DataPort,
                        m.s.SessionPartnerIP, m.s.PartnerDataPort,
                        0, m.s.SSRC, 0, NoTS, m.s.RTPSequence,
                        Overrun(MIDIList, kept))
               EXCEPT !.stamp = m.s.TimeCounter])

-----------------------------------------------------------------------------
(* CRTP_MIDI::RunSession, in the order of the source *)

(* timer check *)
RunTimer(m) ==
    IF ~m.s.TimerRunning THEN m
    ELSE LET t == IF m.s.EventTime > 0 THEN m.s.EventTime - 1 ELSE m.s.EventTime
         IN IF t = 0
              THEN [m EXCEPT !.s.EventTime = t, !.s.TimerRunning = FALSE,
                             !.TimerEvent = TRUE]
              ELSE [m EXCEPT !.s.EventTime = t]

(* an invited listener whose invitation does not complete in time *)
RunListenerTimeout(m) ==
    IF m.TimerEvent /\ m.s.SessionState \in {SESSION_WAIT_INVITE_DATA,
                                             SESSION_WAIT_CLOCK_SYNC}
      THEN [m EXCEPT !.s.SessionState = SESSION_WAIT_INVITE_CTRL]
      ELSE m

(* the remote device has rejected our invitation *)
RunRejected_FlagOnly(m) ==
    IF m.rejC \/ m.rejD
      THEN [m EXCEPT !.s.ConnectionRefused = TRUE, !.accD = FALSE, !.accC = FALSE]
      ELSE m

RunRejected(m) ==
    IF m.rejC \/ m.rejD
      THEN [PartnerCloseSession(m) EXCEPT !.s.ConnectionRefused = TRUE,
                                          !.accD = FALSE, !.accC = FALSE]
      ELSE m

(* session initiator; m.returned records the early returns *)
RunInitiator_LimitOffByOne(m, e) ==
    IF ~m.s.IsInitiatorNode THEN m
    ELSE IF m.s.SessionState = SESSION_INVITE_CONTROL THEN
        LET m1 == [m EXCEPT !.s.SyncSequenceCounter = 0]
        IN IF m1.accC THEN
               [PrepareTimerEvent(
                  SendInvitation([m1 EXCEPT !.s.SessionState = SESSION_INVITE_DATA],
                                 e, FALSE),
                  TimerInviteData)
                EXCEPT !.returned = TRUE]
           ELSE IF ~m1.s.TimerRunning /\ m1.TimerEvent THEN
               [PrepareTimerEvent(SendInvitation(m1, e, TRUE), TimerInvite)
                EXCEPT !.s.InviteCount = @ + 1]
           ELSE m1
    ELSE IF m.s.SessionState = SESSION_INVITE_DATA THEN
        IF m.accD THEN [m EXCEPT !.s.SessionState = SESSION_CLOCK_SYNC0]
        ELSE IF ~m.s.TimerRunning /\ m.TimerEvent THEN
            IF m.s.InviteCount >= InviteCountLimit
              THEN [RestartSession(m) EXCEPT !.returned = TRUE]
              ELSE [PrepareTimerEvent(SendInvitation(m, e, FALSE), TimerInvite)
                    EXCEPT !.s.InviteCount = @ + 1, !.returned = TRUE]
        ELSE m
    ELSE IF m.s.SessionState = SESSION_CLOCK_SYNC0 THEN
        [SendSyncPacket(m, e, 0, [NoTS EXCEPT !.l1 = m.s.TimeCounter])
         EXCEPT !.s.SessionState = SESSION_CLOCK_SYNC1]
    ELSE m

RunInitiator(m, e) ==
    IF ~m.s.IsInitiatorNode THEN m
    ELSE IF m.s.SessionState = SESSION_INVITE_CONTROL THEN
        LET m1 == [m EXCEPT !.s.SyncSequenceCounter = 0]
        IN IF m1.accC THEN
               [PrepareTimerEvent(
                  SendInvitation([m1 EXCEPT !.s.SessionState = SESSION_INVITE_DATA],
                                 e, FALSE),
                  TimerInviteData)
                EXCEPT !.returned = TRUE]
           ELSE IF ~m1.s.TimerRunning /\ m1.TimerEvent THEN
               [PrepareTimerEvent(SendInvitation(m1, e, TRUE), TimerInvite)
                EXCEPT !.s.InviteCount = @ + 1]
           ELSE m1
    ELSE IF m.s.SessionState = SESSION_INVITE_DATA THEN
        IF m.accD THEN [m EXCEPT !.s.SessionState = SESSION_CLOCK_SYNC0]
        ELSE IF ~m.s.TimerRunning /\ m.TimerEvent THEN
            IF m.s.InviteCount > InviteCountLimit
              THEN [RestartSession(m) EXCEPT !.returned = TRUE]
              ELSE [PrepareTimerEvent(SendInvitation(m, e, FALSE), TimerInvite)
                    EXCEPT !.s.InviteCount = @ + 1, !.returned = TRUE]
        ELSE m
    ELSE IF m.s.SessionState = SESSION_CLOCK_SYNC0 THEN
        [SendSyncPacket(m, e, 0, [NoTS EXCEPT !.l1 = m.s.TimeCounter])
         EXCEPT !.s.SessionState = SESSION_CLOCK_SYNC1]
    ELSE m

(* keep-alive on a timer event while the session is opened *)
RunKeepAlive(m, e) ==
    LET m1 == IF m.s.LastRTPCounter # m.s.LastFeedbackCounter
                THEN [SendFeedbackPacket(m, e, m.s.LastRTPCounter)
                      EXCEPT !.s.LastFeedbackCounter = m.s.LastRTPCounter]
                ELSE m
        m2 == IF m1.s.IsInitiatorNode
                THEN SendSyncPacket(m1, e, 0, [NoTS EXCEPT !.l1 = m1.s.TimeCounter])
                ELSE m1
        m3 == IF m2.s.SyncSequenceCounter <= SyncSequenceFast
                THEN [PrepareTimerEvent(m2, TimerSyncFast)
                      EXCEPT !.s.SyncSequenceCounter = @ + 1]
                ELSE PrepareTimerEvent(m2, TimerSyncSlow)
    IN IF m3.s.TimeOutRemote > 0
         THEN [m3 EXCEPT !.s.TimeOutRemote = @ - 1]
         ELSE m3

(* the remote device has timed out *)
RunLossDetection_NoRestart(m) ==
    IF m.s.TimeOutRemote # 0 THEN m
    ELSE [m EXCEPT !.s.ConnectionLost = TRUE,
                   !.s.SessionState = IF m.s.IsInitiatorNode
                                        THEN SESSION_INVITE_CONTROL
                                        ELSE SESSION_WAIT_INVITE_CTRL]

RunLossDetection(m) ==
    IF m.s.TimeOutRemote # 0 THEN m
    ELSE LET m1 == [m EXCEPT !.s.ConnectionLost = TRUE]
         IN IF m1.s.IsInitiatorNode
              THEN RestartSession([m1 EXCEPT !.s.TimeOutRemote = TimeOutRemoteReload])
              ELSE [m1 EXCEPT !.s.SessionState = SESSION_WAIT_INVITE_CTRL]

(* RTP communication and feedback when the session is opened.  ToSend is  *)
(* true when RunSession goes on to PrepareMessage; AfterPayload is         *)
(* RunSession from the return of GeneratePayload, which has left the ring  *)
(* as q and the bytes MIDIList in the message.                             *)
ToSend(m) == ~m.returned /\ m.s.SessionState = SESSION_OPENED

AfterPayload_NoIncrement(m, e, q, MIDIList, kept) ==
    LET m1 == [m EXCEPT !.s.RTPStreamQueue = q]
        m2 == IF Len(MIDIList) > 0
                THEN SendRTPMessage(m1, e, MIDIList, kept)
                ELSE m1
        m3 == IF m2.TimerEvent THEN RunKeepAlive(m2, e) ELSE m2
    IN RunLossDetection(m3)

AfterPayload(m, e, q, MIDIList, kept) ==
    LET m1 == [m EXCEPT !.s.RTPStreamQueue = q]
        m2 == IF Len(MIDIList) > 0
                THEN [SendRTPMessage(m1, e, MIDIList, kept)
                      EXCEPT !.s.RTPSequence = (@ + 1) % K16]
                ELSE m1
        m3 == IF m2.TimerEvent THEN RunKeepAlive(m2, e) ELSE m2
    IN RunLossDetection(m3)

RunOpened(m, e, kept) ==
    IF ~ToSend(m) THEN m
    ELSE LET g == GeneratePayload(m.s.RTPStreamQueue)
         IN AfterPayload(m, e, g.q, g.MIDIList, kept)

(* RunSession up to the test of SESSION_OPENED *)
BeforePayload_TimerBeforeLock(m, e, ClockWrap) ==
    LET m0 == [m EXCEPT !.s.TimeCounter = (@ + ClockStep) % ClockWrap,
                        !.s.LocalClock = (@ + ClockStep) % ClockWrap]
        m1 == RunTimer(m0)
    IN IF m1.s.EndpointLocked THEN [m1 EXCEPT !.returned = TRUE]
       ELSE RunInitiator(
              RunRejected(DrainSockets(RunListenerTimeout(m1), e)), e)

BeforePayload(m, e, ClockWrap) ==
    LET m0 == [m EXCEPT !.s.TimeCounter = (@ + ClockStep) % ClockWrap,
                        !.s.LocalClock = (@ + ClockStep) % ClockWrap]
    IN IF m0.s.EndpointLocked THEN [m0 EXCEPT !.returned = TRUE]
       ELSE RunInitiator(
              RunRejected(DrainSockets(RunListenerTimeout(RunTimer(m0)), e)), e)

RunSession_InitiatorFirst(m, e, kept, ClockWrap) ==
    LET m0 == [m EXCEPT !.s.TimeCounter = (@ + ClockStep) % ClockWrap,
                        !.s.LocalClock = (@ + ClockStep) % ClockWrap]
    IN IF m0.s.EndpointLocked THEN [m0 EXCEPT !.returned = TRUE]
       ELSE RunOpened(
              RunRejected(
                RunInitiator(DrainSockets(RunListenerTimeout(RunTimer(m0)), e), e)),
              e, kept)

RunSession(m, e, kept, ClockWrap) ==
    RunOpened(BeforePayload(m, e, ClockWrap), e, kept)

-----------------------------------------------------------------------------
(* CRTP_MIDI::InitiateSession.  r1, r2 are the two values of rand();       *)
(* SocketOK tells whether both UDP sockets could be created.  The sockets  *)
(* are closed and created again, so datagrams waiting on them are gone.    *)
InitiateSession(s, DestIP, DestCtrlPort, DestDataPort, IsInitiator, r1, r2, SocketOK) ==
    LET s1 == [s EXCEPT !.RemoteIPToInvite = DestIP,
                        !.PartnerControlPort = DestCtrlPort,
                        !.PartnerDataPort = DestDataPort,
                        !.InitiatorToken = Mul32ByAllOnes(r1),
                        !.SSRC = Mul32ByAllOnes(r2),
                        !.RTPSequence = 0,
                        !.LastRTPCounter = 0,
                        !.LastFeedbackCounter = 0,
                        !.SyncSequenceCounter = 0,
                        !.SocketsOpen = SocketOK]
    IN IF ~SocketOK THEN s1
       ELSE [s1 EXCEPT !.SYSEX_RTPActif = FALSE,
                       !.SegmentSYSEXInput = FALSE,
                       !.ConnectionLost = FALSE,
                       !.InviteCount = 0,
                       !.TimeOutRemote = TimeOutRemoteStart,
                       !.IncomingThirdByte = FALSE,
                       !.IsInitiatorNode = IsInitiator,
                       !.SessionState = IF IsInitiator THEN SESSION_INVITE_CONTROL
                                                       ELSE SESSION_WAIT_INVITE_CTRL,
                       !.SessionPartnerIP = IF IsInitiator THEN DestIP
                                                           ELSE s.SessionPartnerIP,
                       !.TimerRunning = TRUE,
                       !.EventTime = TimerFirst,
                       !.EndpointLocked = FALSE]

(* CRTP_MIDI::setSessionName.  SessionName is the string held by the       *)
(* member, without its terminating 0; a datagram's name is the bytes that  *)
(* follow the SSRC on the wire.                                            *)
setSessionName(s, Name) ==
    IF Len(Name) > MAX_SESSION_NAME_LEN - 1 THEN s
    ELSE [s EXCEPT !.SessionName = Name]

(* CRTP_MIDI::CloseSession *)
CloseSession(m, e) ==
    IF ~m.s.IsInitiatorNode /\ m.s.SessionState = SESSION_WAIT_INVITE_CTRL THEN m
    ELSE IF m.s.EndpointLocked THEN m
    ELSE SendBYCommand([m EXCEPT !.s.SessionState = SESSION_CLOSED,
                                 !.s.EndpointLocked = TRUE], e)

(* CRTP_MIDI::getSessionStatus *)
getSessionStatus_InviteDataAsSync(s) ==
    IF s.SessionState = SESSION_CLOSED THEN 0
    ELSE IF s.SessionState = SESSION_OPENED THEN 3
    ELSE IF s.SessionState = SESSION_INVITE_CONTROL THEN 1
    ELSE 2

getSessionStatus(s) ==
    IF s.SessionState = SESSION_CLOSED THEN 0
    ELSE IF s.SessionState = SESSION_OPENED THEN 3
    ELSE IF s.SessionState \in {SESSION_INVITE_DATA, SESSION_INVITE_CONTROL} THEN 1
    ELSE 2

(* CRTP_MIDI::GetLatency *)
GetLatency(s) ==
    IF s.SessionState # SESSION_OPENED THEN LatencyUnknown ELSE s.MeasuredLatency

-----------------------------------------------------------------------------
(* CRTP_MIDI::SendRTPMIDIBlock, run to completion.  The loop writes each   *)
(* byte before it tests for a full FIFO, so a rejected block leaves its    *)
(* first bytes in free slots; WritePtr moves only when the whole block has *)
(* been copied.  The value is [q, ok].                                     *)
RECURSIVE CopyBlock(_, _, _, _)
CopyBlock(q, TmpWrite, MIDIData, ByteCounter) ==
    IF ByteCounter > Len(MIDIData)
      THEN [q |-> [q EXCEPT !.WritePtr = TmpWrite], ok |-> TRUE]
      ELSE LET q1 == [q EXCEPT !.FIFO[TmpWrite] = MIDIData[ByteCounter]]
               w == NextPtr(TmpWrite)
           IN IF w = q.ReadPtr THEN [q |-> q1, ok |-> FALSE]
              ELSE CopyBlock(q1, w, MIDIData, ByteCounter + 1)

SendRTPMIDIBlock_NoStateCheck(s, MIDIData) ==
    IF Len(MIDIData) = 0 THEN [s |-> s, ok |-> TRUE]
    ELSE LET c == CopyBlock(s.RTPStreamQueue, s.RTPStreamQueue.WritePtr, MIDIData, 1)
         IN [s |-> [s EXCEPT !.RTPStreamQueue = c.q], ok |-> c.ok]

SendRTPMIDIBlock(s, MIDIData) ==
    IF Len(MIDIData) = 0 THEN [s |-> s, ok |-> TRUE]
    ELSE IF s.SessionState # SESSION_OPENED THEN [s |-> s, ok |-> FALSE]
    ELSE LET c == CopyBlock(s.RTPStreamQueue, s.RTPStreamQueue.WritePtr, MIDIData, 1)
         IN [s |-> [s EXCEPT !.RTPStreamQueue = c.q], ok |-> c.ok]

(* the three read-and-reset flags *)
ReadAndResetConnectionLost(s) ==
    [s |-> [s EXCEPT !.ConnectionLost = FALSE], val |-> s.ConnectionLost]

RemotePeerHasClosedSession(s) ==
    [s |-> [s EXCEPT !.PeerClosedSession = FALSE], val |-> s.PeerClosedSession]

RemotePeerHasRefusedSession(s) ==
    [s |-> [s EXCEPT !.ConnectionRefused = FALSE], val |-> s.ConnectionRefused]

-----------------------------------------------------------------------------
(* Actions.  Each Do* action is one method call on endpoint e: it installs *)
(* the members and the socket queues the call leaves behind.  The          *)
(* specifications add what they observe of the call.                       *)
RandValues == {1}
EnvToken == 7
EnvSSRC == 9

Commit(e, m) ==
    /\ ep' = [ep EXCEPT ![e] = m.s]
    /\ ctrlQ' = [ctrlQ EXCEPT ![e] = m.cq]
    /\ dataQ' = [dataQ EXCEPT ![e] = m.dq]

Call(e) == Machine(ep[e], ctrlQ[e], dataQ[e])

NoLast == [op |-> "none", pre |-> SESSION_CLOSED, arg |-> <<>>, rcvd |-> <<>>,
           sent |-> <<>>, ret |-> FALSE]
NoHist == [wire |-> <<>>, ticks |-> 0, inCtrl |-> 0, inData |-> 0,
           restarts |-> 0, accepted |-> <<>>, emitted |-> <<>>]
NoThr == [ppc |-> "idle", block |-> <<>>, TmpWrite |-> 0, ByteCounter |-> 0,
          pending |-> <<>>,
          cpc |-> "idle", MIDIBlockEnd |-> 0, MIDIList |-> <<>>,
          TimerEvent |-> FALSE]

Observed(e, op, arg, rcvd, out, val) ==
    last' = [op |-> op, pre |-> ep[e].SessionState, arg |-> arg, rcvd |-> rcvd,
             sent |-> out, ret |-> val]

(* the application starts endpoint e as initiator towards its peer, or as  *)
(* listener (destination 0, as RTP_MIDI.h documents)                       *)
DoInitiateSession(e, IsInitiator, SocketOK) ==
    \E r1 \in RandValues, r2 \in RandValues :
        LET dst == IF IsInitiator THEN IPOf(Peer(e)) ELSE 0
            cp == IF IsInitiator THEN CtrlPort ELSE 0
            dp == IF IsInitiator THEN DataPort ELSE 0
            s1 == InitiateSession(ep[e], dst, cp, dp, IsInitiator, r1, r2, SocketOK)
        IN Commit(e, Machine(s1, <<>>, <<>>))

DoCloseSession(e) == Commit(e, CloseSession(Call(e), e))

DoRestartSession(e) == Commit(e, RestartSession(Call(e)))

(* the bytes GeneratePayload would take from the ring of s *)
Queued(q) ==
    (q.WritePtr + MIDI_CHAR_FIFO_SIZE - q.ReadPtr) % MIDI_CHAR_FIFO_SIZE

(* outcomes of the write past the end of MIDIList: one when it cannot      *)
(* happen, both otherwise                                                  *)
KeptChoices(s) ==
    IF s.SessionState = SESSION_OPENED /\ Queued(s.RTPStreamQueue) > MAX_RTP_LOAD
      THEN BOOLEAN ELSE {TRUE}

(* the results RunSession can have on endpoint e when the datagrams cq and *)
(* dq have arrived on its control and data sockets since the last call     *)
TickResults(e, cq, dq, ClockWrap) ==
    {RunSession(Machine(ep[e], ctrlQ[e] \o cq, dataQ[e] \o dq), e, kept, ClockWrap) :
        kept \in KeptChoices(ep[e])}

DoRunSession(e, cq, dq, ClockWrap) ==
    \E m \in TickResults(e, cq, dq, ClockWrap) : Commit(e, m)

DoRunSessionObserved(e, cq, dq, ClockWrap) ==
    \E m \in TickResults(e, cq, dq, ClockWrap) :
        /\ Commit(e, m)
        /\ Observed(e, "RunSession", <<>>, cq \o dq, m.out, FALSE)

DoSendRTPMIDIBlock(e, MIDIData) ==
    Commit(e, [Call(e) EXCEPT !.s = SendRTPMIDIBlock(ep[e], MIDIData).s])

DoReadAndResetConnectionLost(e) ==
    Commit(e, [Call(e) EXCEPT !.s = ReadAndResetConnectionLost(ep[e]).s])

DoRemotePeerHasClosedSession(e) ==
    Commit(e, [Call(e) EXCEPT !.s = RemotePeerHasClosedSession(ep[e]).s])

DoRemotePeerHasRefusedSession(e) ==
    Commit(e, [Call(e) EXCEPT !.s = RemotePeerHasRefusedSession(ep[e]).s])

(* a datagram from the network for a socket of e *)
EnvDatagram(e, sock, cmd, ip, count) ==
    Datagram(sock, cmd, ip, LocalPort(sock), IPOf(e), LocalPort(sock),
             EnvToken, EnvSSRC, count, NoTS, 1, <<>>)

Range(seq) == {seq[i] : i \in 1..Len(seq)}

SeqsUpTo(S, n) == UNION {[1..k -> S] : k \in 0..n}

(* what can arrive between two calls of RunSession: at most n datagrams,   *)
(* on either socket                                                        *)
Arrivals(C, D, n) ==
    {io \in SeqsUpTo(C, n) \X SeqsUpTo(D, n) : Len(io[1]) + Len(io[2]) <= n}

CanReceive(e) == ~ep[e].EndpointLocked /\ ep[e].SocketsOpen

-----------------------------------------------------------------------------
(* Spec: endpoint A alone, driven by its application and by a network that *)
(* can put any session datagram on its sockets, from the invited peer's    *)
(* address or from a third party.  The clock is not observed.              *)
(* the endpoints of E are constructed; an endpoint outside E takes no part *)
(* in the run and its record only fills the place                          *)
InitFor(E) ==
    /\ \E g \in [E -> UninitValues] :
          ep = [e \in Endpoints |-> Constructed(IF e \in E THEN g[e] ELSE 0)]
    /\ ctrlQ = [e \in Endpoints |-> <<>>]
    /\ dataQ = [e \in Endpoints |-> <<>>]
    /\ last = NoLast
    /\ hist = NoHist
    /\ thr = NoThr
    /\ turn = "A"

InitCommon == InitFor({"A"})

Init == InitCommon

PeerIP == IPOf("B")

CtrlInputs ==
    {EnvDatagram("A", "ctrl", c, PeerIP, 0) : c \in {"IN", "OK", "NO", "BY", "XX"}}
    \cup {EnvDatagram("A", "ctrl", c, OtherIP, 0) : c \in {"IN", "BY"}}

DataInputs ==
    {EnvDatagram("A", "data", c, PeerIP, 0) : c \in {"IN", "OK", "NO", "BY"}}
    \cup {EnvDatagram("A", "data", "CK", PeerIP, n) : n \in 0..2}
    \cup {EnvDatagram("A", "data", c, OtherIP, 0) : c \in {"BY"}}

Inputs == Arrivals(CtrlInputs, DataInputs, MaxQueue)

(* RunSession can be called with the arrivals io *)
TickEnabled(io) ==
    /\ (io # <<<<>>, <<>>>>) => CanReceive("A")
    /\ ep["A"].InviteCount <= MaxInvites

Unobserved == UNCHANGED <<last, hist, thr, turn>>

Tick ==
    /\ \E io \in Inputs :
          /\ TickEnabled(io)
          /\ DoRunSession("A", io[1], io[2], ClockUnobserved)
    /\ Unobserved

Initiate ==
    /\ \E IsInitiator \in BOOLEAN : DoInitiateSession("A", IsInitiator, TRUE)
    /\ Unobserved

Close == DoCloseSession("A") /\ Unobserved

Restart == DoRestartSession("A") /\ Unobserved

ReadLost == DoReadAndResetConnectionLost("A") /\ Unobserved

ReadClosed == DoRemotePeerHasClosedSession("A") /\ Unobserved

ReadRefused == DoRemotePeerHasRefusedSession("A") /\ Unobserved

Next ==
    \/ Initiate
    \/ Close
    \/ Restart
    \/ Tick
    \/ ReadLost
    \/ ReadClosed
    \/ ReadRefused

Spec == Init /\ [][Next]_vars

-----------------------------------------------------------------------------
(* Properties of Spec.  After(io) is the result of RunSession called on    *)
(* endpoint A in the current state when the datagrams io have arrived      *)
(* since the previous call; the ring is empty in Spec.                     *)
After(io) == RunSession(Machine(ep["A"], io[1], io[2]), "A", TRUE, ClockUnobserved)

Sockets == {"ctrl", "data"}
NoArrival == <<<<>>, <<>>>>
One(sock, cmd, ip) ==
    IF sock = "ctrl"
      THEN <<<<EnvDatagram("A", "ctrl", cmd, ip, 0)>>, <<>>>>
      ELSE <<<<>>, <<EnvDatagram("A", "data", cmd, ip, 0)>>>>

SendsIN(out) == \E i \in 1..Len(out) : out[i].cmd = "IN"

Inviting(s) ==
    /\ s.IsInitiatorNode
    /\ s.SessionState \in {SESSION_INVITE_CONTROL, SESSION_INVITE_DATA}

C4_PeerBY ==
    \A sock \in Sockets, ip \in {PeerIP, OtherIP} :
        LET s == ep["A"]
            r == After(One(sock, "BY", ip))
            rd1 == RemotePeerHasClosedSession(r.s)
            rd2 == RemotePeerHasClosedSession(rd1.s)
        IN CanReceive("A") =>
             IF ip = s.SessionPartnerIP
               THEN /\ r.s.SessionState = IF s.IsInitiatorNode
                                            THEN SESSION_CLOSED
                                            ELSE SESSION_WAIT_INVITE_CTRL
                    /\ ~r.s.TimerRunning
                    /\ r.s.SessionPartnerIP = 0
                    /\ rd1.val
                    /\ ~rd2.val
               ELSE r = After(NoArrival)

C4_Witness ==
    /\ ~ep["A"].IsInitiatorNode
    /\ ~ep["A"].EndpointLocked
    /\ ep["A"].SessionState = SESSION_WAIT_INVITE_CTRL
    /\ ep["A"].PeerClosedSession
    /\ ~ep["A"].ConnectionRefused
    /\ ep["A"].SessionPartnerIP = 0
    /\ ~ep["A"].TimerRunning
    /\ ep["A"].MeasuredLatency # LatencyUnknown

(* C6 Loss outcome.  ConnectionLost becomes true only in a tick that       *)
(* starts OPENED with one keep-alive credit left (TimeOutRemote = 1); that *)
(* tick leaves an initiator in INVITE_CTRL with InviteCount 0,             *)
(* TimeOutRemote 16 and the timer armed with the invitation period, and a  *)
(* listener in WAIT_INVITE_CTRL with no IN sent.  A tick that starts       *)
(* OPENED with one credit left, whose timer fires and which reads nothing, *)
(* sets ConnectionLost.  No other step of the program sets it.             *)
LossOutcome(s, m) ==
    /\ s.SessionState = SESSION_OPENED
    /\ s.TimeOutRemote = 1
    /\ IF s.IsInitiatorNode
         THEN /\ m.s.SessionState = SESSION_INVITE_CONTROL
              /\ m.s.InviteCount = 0
              /\ m.s.TimeOutRemote = TimeOutRemoteStart
              /\ m.s.TimerRunning
              /\ m.s.EventTime = TimerInvite
         ELSE /\ m.s.SessionState = SESSION_WAIT_INVITE_CTRL
              /\ ~SendsIN(m.out)

C6_Ticks ==
    /\ \A io \in Inputs :
         (After(io).s.ConnectionLost /\ ~ep["A"].ConnectionLost) =>
              LossOutcome(ep["A"], After(io))
    /\ ( /\ ~ep["A"].EndpointLocked
         /\ ep["A"].SessionState = SESSION_OPENED
         /\ ep["A"].TimeOutRemote = 1
         /\ ep["A"].TimerRunning
         /\ ep["A"].EventTime <= 1 ) => After(NoArrival).s.ConnectionLost

C6_Steps ==
    (ep'["A"].ConnectionLost /\ ~ep["A"].ConnectionLost) =>
        /\ ep["A"].SessionState = SESSION_OPENED
        /\ ep["A"].TimeOutRemote = 1
        /\ ep'["A"].SessionState = IF ep["A"].IsInitiatorNode
                                     THEN SESSION_INVITE_CONTROL
                                     ELSE SESSION_WAIT_INVITE_CTRL

C6_LossOutcome == [](C6_Ticks) /\ [][C6_Steps]_vars

C6_Witness ==
    /\ ep["A"].ConnectionLost
    /\ ep["A"].IsInitiatorNode
    /\ ep["A"].SessionState = SESSION_INVITE_CONTROL
    /\ ep["A"].InviteCount = 0
    /\ ep["A"].TimeOutRemote = TimeOutRemoteStart
    /\ ep["A"].TimerRunning
    /\ ep["A"].EventTime = TimerInvite

(* C7 Loss is always detected, in the form the claim gives as equivalent:  *)
(* while the session is OPENED the keep-alive timer is running.            *)
C7_OpenedTimerRunning ==
    ep["A"].SessionState = SESSION_OPENED => ep["A"].TimerRunning

(* CloseSession called on A in the current state, and the same call made   *)
(* again right after it                                                    *)
Closed == CloseSession(Call("A"), "A")
ClosedTwice == CloseSession(Machine(Closed.s, Closed.cq, Closed.dq), "A")

ListenerIdle(s) ==
    ~s.IsInitiatorNode /\ s.SessionState = SESSION_WAIT_INVITE_CTRL

(* C13 Close is a unilateral cancel: in every reachable state of an        *)
(* initiated endpoint, after CloseSession returns the session state is     *)
(* CLOSED and the endpoint is locked, and a RunSession called after it     *)
(* reads no datagram, sends none and leaves the state CLOSED.              *)
C13_CloseAnyState ==
    ~ep["A"].EndpointLocked =>
        /\ Closed.s.SessionState = SESSION_CLOSED
        /\ Closed.s.EndpointLocked
        /\ \A io \in Inputs :
              LET m == RunSession(Machine(Closed.s, io[1], io[2]), "A", TRUE,
                                  ClockUnobserved)
              IN /\ m.cq = io[1] /\ m.dq = io[2] /\ m.out = <<>>
                 /\ m.s.SessionState = SESSION_CLOSED

(* C14 BY on close: in every reachable state CloseSession sends at most    *)
(* one datagram; it sends one only when a partner is bound                 *)
(* (SessionPartnerIP is not 0), and that one is a BY on the control socket *)
(* to the partner's IP and control port; it sends none for a listener idle *)
(* in WAIT_INVITE_CTRL, none when the endpoint is locked, and a second     *)
(* CloseSession right after the first sends none.                          *)
C14_ByeOnClose ==
    LET s == ep["A"]
        out == Closed.out
    IN /\ Len(out) <= 1
       /\ out # <<>> =>
            /\ s.SessionPartnerIP # 0
            /\ out[1].cmd = "BY" /\ out[1].sock = "ctrl"
            /\ out[1].dip = s.SessionPartnerIP
            /\ out[1].dport = s.PartnerControlPort
       /\ ListenerIdle(s) => out = <<>>
       /\ s.EndpointLocked => out = <<>>
       /\ ClosedTwice.out = <<>>

FromPartner(d, s) == d.ip = s.SessionPartnerIP /\ s.SessionPartnerIP # 0

(* C16 peer_closed only on BY: in every reachable state a RunSession       *)
(* raises PeerClosedSession only if it has read a BY sent by the session   *)
(* partner; a NO raises ConnectionRefused without raising                  *)
(* PeerClosedSession.  No other method raises the flag.                    *)
C16_PeerClosedOnlyOnBY ==
    LET s == ep["A"]
    IN /\ \A io \in Inputs :
            (After(io).s.PeerClosedSession /\ ~s.PeerClosedSession) =>
                \E d \in Range(io[1] \o io[2]) :
                    d.cmd = "BY" /\ FromPartner(d, s)
       /\ Closed.s.PeerClosedSession = s.PeerClosedSession
       /\ RestartSession(Call("A")).s.PeerClosedSession = s.PeerClosedSession

(* C19 A listener never initiates: in every reachable state of an endpoint *)
(* initiated as listener, whatever has arrived, RunSession sends no IN and *)
(* no CK with count 0, and RestartSession changes no member.               *)
C19_ListenerNeverInitiates ==
    ~ep["A"].IsInitiatorNode =>
        /\ \A io \in Inputs :
              \A d \in Range(After(io).out) :
                  d.cmd # "IN" /\ ~(d.cmd = "CK" /\ d.count = 0)
        /\ RestartSession(Call("A")).s = ep["A"]
        /\ RestartSession(Call("A")).out = <<>>

(* a listener whose session is opened, one tick before its keep-alive      *)
(* timer fires for the last period of its keep-alive credit                *)
C19_Witness ==
    /\ ~ep["A"].IsInitiatorNode
    /\ ep["A"].SessionState = SESSION_OPENED
    /\ ep["A"].TimerRunning /\ ep["A"].EventTime = 1
    /\ ep["A"].TimeOutRemote = 1

-----------------------------------------------------------------------------
(* SpecBurst: initiator A whose peer answers with OK and NO, several of    *)
(* them between two ticks.  Each tick is observed in last.                 *)
BurstCtrl == {EnvDatagram("A", "ctrl", c, PeerIP, 0) : c \in {"OK", "NO"}}
BurstData == {EnvDatagram("A", "data", c, PeerIP, 0) : c \in {"OK", "NO"}}

BurstInitiate ==
    /\ DoInitiateSession("A", TRUE, TRUE)
    /\ last' = NoLast
    /\ UNCHANGED <<hist, thr, turn>>

BurstTick ==
    \E io \in Arrivals(BurstCtrl, BurstData, MaxBurst) :
        /\ (io # <<<<>>, <<>>>>) => CanReceive("A")
        /\ ep["A"].InviteCount <= MaxInvites
        /\ DoRunSessionObserved("A", io[1], io[2], ClockUnobserved)
        /\ UNCHANGED <<hist, thr, turn>>

NextBurst ==
    \/ BurstInitiate
    \/ BurstTick

SpecBurst == InitCommon /\ [][NextBurst]_vars

HasCmd(ds, cmd) == \E i \in 1..Len(ds) : ds[i].cmd = cmd

-----------------------------------------------------------------------------
(* SpecInvite: initiator A whose peer accepts the invitation on the        *)
(* control port, after any number of invitations, and never answers on the *)
(* data port.  hist counts the IN datagrams sent on each port and the      *)
(* restarts; the run is followed up to the first restart.                  *)
CountIN(out, sock) ==
    Cardinality({i \in 1..Len(out) : out[i].cmd = "IN" /\ out[i].sock = sock})

InviteStart ==
    /\ ep["A"].EndpointLocked
    /\ DoInitiateSession("A", TRUE, TRUE)
    /\ UNCHANGED <<last, hist, thr, turn>>

InviteTick ==
    \E io \in {NoArrival, One("ctrl", "OK", PeerIP)} :
        /\ ~ep["A"].EndpointLocked
        /\ hist.restarts = 0
        /\ ep["A"].InviteCount <= MaxCtrlInvites
        /\ (io # NoArrival) => ep["A"].InviteCount >= 1
        /\ \E m \in TickResults("A", io[1], io[2], ClockUnobserved) :
             /\ Commit("A", m)
             /\ hist' = [hist EXCEPT
                   !.inCtrl = @ + CountIN(m.out, "ctrl"),
                   !.inData = @ + CountIN(m.out, "data"),
                   !.restarts = IF /\ ep["A"].SessionState = SESSION_INVITE_DATA
                                   /\ m.s.SessionState = SESSION_INVITE_CONTROL
                                  THEN @ + 1 ELSE @]
        /\ UNCHANGED <<last, thr, turn>>

NextInvite ==
    \/ InviteStart
    \/ InviteTick

SpecInvite == InitCommon /\ [][NextInvite]_vars

(* C5 Invitation timeout, as claimed: when the session restarts from       *)
(* INVITE_DATA, 13 IN datagrams have been sent on the data port, however   *)
(* many were sent on the control port.                                     *)
C5_ThirteenOnData ==
    hist.restarts = 1 =>
        /\ hist.inData = InviteCountLimit + 1
        /\ ep["A"].SessionState = SESSION_INVITE_CONTROL
        /\ ep["A"].InviteCount = 0

(* C5 Invitation timeout, amended: InviteCount counts the invitations of   *)
(* both ports, so after k IN on the control port (1 <= k) the initiator    *)
(* sends 1 + max(0, 13 - k) IN on the data port, and the timeout that      *)
(* follows the last of them restarts the session: INVITE_CTRL with         *)
(* InviteCount = 0.                                                        *)
C5_InviteTimeout ==
    hist.restarts = 1 =>
        /\ hist.inCtrl >= 1
        /\ hist.inData = 1 + (IF hist.inCtrl <= InviteCountLimit
                                THEN InviteCountLimit + 1 - hist.inCtrl ELSE 0)
        /\ ep["A"].SessionState = SESSION_INVITE_CONTROL
        /\ ep["A"].InviteCount = 0
        /\ ep["A"].TimerRunning
        /\ ep["A"].EventTime = TimerInvite

C5_Witness ==
    /\ hist.restarts = 1
    /\ hist.inCtrl = 3
    /\ hist.inData = InviteCountLimit - 1
    /\ ep["A"].SessionState = SESSION_INVITE_CONTROL
    /\ ep["A"].InviteCount = 0

-----------------------------------------------------------------------------
(* SpecPair: initiator A and listener B, both running this code, invited   *)
(* towards each other.  RunSession is called on A and on B in turn; every  *)
(* datagram an endpoint sends is on the peer's socket, in order, when the  *)
(* peer's RunSession is called next; there is no third party.  Either      *)
(* endpoint may be the first to run once both are initiated.  Before the   *)
(* sessions are initiated each endpoint's RunSession runs at its own pace, *)
(* so the two clocks differ.  hist.wire logs the first MaxHist datagrams,  *)
(* hist.ticks counts the calls of RunSession since both sessions were      *)
(* initiated, up to OpenWithin.                                            *)
Arriving(q, out, ip, port) ==
    q \o SelectSeq(out, LAMBDA d : d.dip = ip /\ d.dport = port)

WireEntry(e, d, clock) ==
    [from |-> e, sock |-> d.sock, cmd |-> d.cmd, count |-> d.count,
     ts |-> d.ts, clock |-> clock]

RECURSIVE Logged(_, _, _, _)
Logged(wire, e, out, clock) ==
    IF out = <<>> \/ Len(wire) >= MaxHist THEN wire
    ELSE Logged(Append(wire, WireEntry(e, Head(out), clock)), e, Tail(out), clock)

Started == \A e \in Endpoints : ~ep[e].EndpointLocked

PairInitiate(e) ==
    /\ ep[e].EndpointLocked
    /\ DoInitiateSession(e, e = "A", TRUE)
    /\ turn' \in Endpoints
    /\ UNCHANGED <<last, hist, thr>>

(* RunSession on an endpoint that is not initiated advances its clock *)
PairIdleTick(e) ==
    /\ ep[e].EndpointLocked
    /\ DoRunSession(e, <<>>, <<>>, ClockModulus)
    /\ UNCHANGED <<last, hist, thr, turn>>

PairTick(e) ==
    /\ Started
    /\ turn = e
    /\ \E m \in TickResults(e, <<>>, <<>>, ClockModulus) :
         LET p == Peer(e)
         IN /\ ep' = [ep EXCEPT ![e] = m.s]
            /\ ctrlQ' = [ctrlQ EXCEPT
                  ![e] = m.cq,
                  ![p] = IF ep[p].SocketsOpen
                           THEN Arriving(@, m.out, IPOf(p), CtrlPort) ELSE @]
            /\ dataQ' = [dataQ EXCEPT
                  ![e] = m.dq,
                  ![p] = IF ep[p].SocketsOpen
                           THEN Arriving(@, m.out, IPOf(p), DataPort) ELSE @]
            /\ hist' = [hist EXCEPT
                  !.wire = Logged(@, e, m.out, m.s.TimeCounter),
                  !.ticks = IF @ < OpenWithin THEN @ + 1 ELSE @]
            /\ turn' = p
            /\ UNCHANGED <<last, thr>>

PairInitiates == \E e \in Endpoints : PairInitiate(e)
PairIdleTicks == \E e \in Endpoints : PairIdleTick(e)
PairTicks == \E e \in Endpoints : PairTick(e)

NextPair ==
    \/ PairInitiates
    \/ PairIdleTicks
    \/ PairTicks

SpecPair == InitFor(Endpoints) /\ [][NextPair]_vars

EmittedBy(e) == SelectSeq(hist.wire, LAMBDA w : w.from = e)

Kind(w) == <<w.sock, w.cmd, w.count>>

ExpectedFromA ==
    << <<"ctrl", "IN", 0>>, <<"data", "IN", 0>>, <<"data", "CK", 0>>,
       <<"data", "CK", 2>> >>

ExpectedFromB ==
    << <<"ctrl", "OK", 0>>, <<"data", "OK", 0>>, <<"data", "CK", 1>> >>

StartsAs(ws, expected) ==
    \A i \in 1..Len(ws) : i <= Len(expected) => Kind(ws[i]) = expected[i]

IsCK(w, e, count) == w.from = e /\ w.cmd = "CK" /\ w.count = count

(* every CK count=1 of B echoes the TS1 of the CK count=0 of A before it   *)
(* and carries B's clock as TS2L                                           *)
EchoesTS1 ==
    \A i \in 1..Len(hist.wire) :
        IsCK(hist.wire[i], "B", 1) =>
            /\ \E j \in 1..(i - 1) :
                 /\ IsCK(hist.wire[j], "A", 0)
                 /\ \A k \in (j + 1)..(i - 1) : ~IsCK(hist.wire[k], "A", 0)
                 /\ hist.wire[i].ts.h1 = hist.wire[j].ts.h1
                 /\ hist.wire[i].ts.l1 = hist.wire[j].ts.l1
                 /\ hist.wire[j].ts.l1 = hist.wire[j].clock
            /\ hist.wire[i].ts.l2 = hist.wire[i].clock

BothOpened == \A e \in Endpoints : ep[e].SessionState = SESSION_OPENED

(* C1 Handshake.  With A initiated as initiator towards B, B as listener,  *)
(* and every datagram delivered in order before the receiver's next tick:  *)
(* the datagrams A emits start with IN on control, IN on data, CK count 0, *)
(* CK count 2; those B emits start with OK on control, OK on data, CK      *)
(* count 1; each CK count 1 echoes A's TS1 and carries B's clock as TS2L;  *)
(* both endpoints are OPENED once RunSession has been called OpenWithin    *)
(* times since the two sessions were initiated, and once both are OPENED   *)
(* they remain so at every later step, the keep-alive CK exchanges going   *)
(* on.                                                                     *)
C1_Handshake ==
    /\ [](StartsAs(EmittedBy("A"), ExpectedFromA))
    /\ [](StartsAs(EmittedBy("B"), ExpectedFromB))
    /\ [](EchoesTS1)
    /\ [](hist.ticks >= OpenWithin => BothOpened)
    /\ [][BothOpened => BothOpened']_vars

C1_Witness ==
    /\ BothOpened
    /\ hist.ticks = OpenWithin
    /\ Len(hist.wire) = MaxHist
    /\ Len(EmittedBy("A")) >= Len(ExpectedFromA)
    /\ Len(EmittedBy("B")) >= Len(ExpectedFromB)
    /\ ep["A"].TimeCounter # ep["B"].TimeCounter
    /\ ep["A"].SyncSequenceCounter > SyncSequenceFast
    /\ ep["A"].TimerRunning /\ ep["B"].TimerRunning

-----------------------------------------------------------------------------
(* SpecRestart: the two endpoints of SpecPair, whose applications go on    *)
(* after the handshake: B's application closes the opened session          *)
(* (CloseSession sends BY to A) and starts B again as a listener on the    *)
(* same address; A's application, once A has read the BY, calls            *)
(* RestartSession.  hist.restarts counts that call and hist.ticks counts   *)
(* the calls of RunSession made after it, up to OpenWithin.                *)
RestartPeerCloses ==
    /\ BothOpened
    /\ LET m == CloseSession(Call("B"), "B")
       IN /\ ep' = [ep EXCEPT !["B"] = m.s]
          /\ ctrlQ' = [ctrlQ EXCEPT !["A"] = Arriving(@, m.out, IPOf("A"), CtrlPort)]
          /\ hist' = [hist EXCEPT !.wire = Logged(@, "B", m.out, m.s.TimeCounter)]
    /\ UNCHANGED <<dataQ, last, thr, turn>>

RestartCalled ==
    /\ Started
    /\ hist.restarts = 0
    /\ ep["A"].SessionState = SESSION_CLOSED
    /\ ep["A"].PeerClosedSession
    /\ ep["B"].SessionState = SESSION_WAIT_INVITE_CTRL
    /\ DoRestartSession("A")
    /\ hist' = [hist EXCEPT !.restarts = 1, !.ticks = 0]
    /\ UNCHANGED <<last, thr, turn>>

NextRestart ==
    \/ PairInitiates
    \/ PairIdleTicks
    \/ PairTicks
    \/ RestartPeerCloses
    \/ RestartCalled

SpecRestart == InitFor(Endpoints) /\ [][NextRestart]_vars

(* C18 Restart after the partner closed: once A's application has called   *)
(* RestartSession after B's BY, with B listening again at the invited      *)
(* address and every datagram delivered, A is OPENED again when RunSession *)
(* has been called OpenWithin times, the number within which the first     *)
(* handshake completes.                                                    *)
C18_RestartReopens ==
    (hist.restarts > 0 /\ hist.ticks >= OpenWithin) =>
        ep["A"].SessionState = SESSION_OPENED

-----------------------------------------------------------------------------
(* SpecQueue: listener A, its peer (which invites it, opens the session    *)
(* with CK count 2 and keeps it alive, or lets it die) and its application, *)
(* which gives blocks of MIDI bytes to SendRTPMIDIBlock between two calls  *)
(* of RunSession, from the thread that calls RunSession.  hist.accepted is *)
(* the bytes of the blocks accepted so far, hist.emitted the MIDI bytes of *)
(* the RTP datagrams sent so far.  The ring does not look at the bytes it  *)
(* carries: the application offers the values of Bytes in rotation, so     *)
(* that a byte lost, repeated or out of place shows in hist.emitted.       *)
OneCK(count) == <<<<>>, <<EnvDatagram("A", "data", "CK", PeerIP, count)>>>>

QueueInputs == {NoArrival, One("ctrl", "IN", PeerIP), OneCK(2)}

Blocks == SeqsUpTo(Bytes, MaxBlock)

RECURSIVE Payloads(_)
Payloads(out) ==
    IF out = <<>> THEN <<>>
    ELSE (IF Head(out).cmd = "RTP" THEN Head(out).list ELSE <<>>)
         \o Payloads(Tail(out))

QueueInitiate ==
    /\ ep["A"].EndpointLocked
    /\ DoInitiateSession("A", FALSE, TRUE)
    /\ last' = NoLast
    /\ UNCHANGED <<hist, thr, turn>>

QueueTick ==
    \E io \in QueueInputs :
        /\ (io # NoArrival) => CanReceive("A")
        /\ \E m \in TickResults("A", io[1], io[2], ClockUnobserved) :
             /\ Commit("A", m)
             /\ hist' = [hist EXCEPT !.emitted = @ \o Payloads(m.out)]
        /\ last' = NoLast
        /\ UNCHANGED <<thr, turn>>

Offered(n) ==
    [i \in 1..n |-> ((Len(hist.accepted) + i - 1) % ByteKinds) + 1]

QueueSend ==
    \E n \in 0..MaxBlock :
        LET b == Offered(n)
            ok == SendRTPMIDIBlock(ep["A"], b).ok
        IN /\ ok => Len(hist.accepted) + Len(b) <= MaxAccepted
           /\ DoSendRTPMIDIBlock("A", b)
           /\ Observed("A", "SendRTPMIDIBlock", b, <<>>, <<>>, ok)
           /\ hist' = [hist EXCEPT !.accepted = IF ok THEN @ \o b ELSE @]
           /\ UNCHANGED <<thr, turn>>

NextQueue ==
    \/ QueueInitiate
    \/ QueueTick
    \/ QueueSend

SpecQueue == InitCommon /\ [][NextQueue]_vars

(* the bytes the consumer would read from the ring, and the room left *)
Visible(q) == GeneratePayload(q).MIDIList
Fits(q, block) == Len(block) <= MIDI_CHAR_FIFO_SIZE - 1 - Queued(q)

NotSendable(s, block) ==
    s.SessionState # SESSION_OPENED \/ ~Fits(s.RTPStreamQueue, block)

(* C9 as claimed: in every reachable state and for every block,            *)
(* SendRTPMIDIBlock returns false and leaves the consumer-visible content  *)
(* of the ring unchanged if the session is not OPENED or the block does    *)
(* not fit, and returns true otherwise.                                    *)
C9_FalseUnlessOpenedAndFits ==
    \A b \in Blocks :
        LET s == ep["A"]
            r == SendRTPMIDIBlock(s, b)
        IN IF NotSendable(s, b)
             THEN ~r.ok /\ Visible(r.s.RTPStreamQueue) = Visible(s.RTPStreamQueue)
             ELSE r.ok

(* C9 amended: the claim holds for the blocks that are not empty; for them *)
(* a false result leaves ReadPtr, WritePtr and the consumer-visible bytes  *)
(* unchanged and a true result appends the block to the visible bytes.  An *)
(* empty block returns true in every session state and changes nothing.    *)
C9_SendResult ==
    \A b \in Blocks :
        LET s == ep["A"]
            r == SendRTPMIDIBlock(s, b)
        IN IF b = <<>> THEN r.ok /\ r.s = s
           ELSE IF NotSendable(s, b)
             THEN /\ ~r.ok
                  /\ r.s.RTPStreamQueue.ReadPtr = s.RTPStreamQueue.ReadPtr
                  /\ r.s.RTPStreamQueue.WritePtr = s.RTPStreamQueue.WritePtr
                  /\ Visible(r.s.RTPStreamQueue) = Visible(s.RTPStreamQueue)
             ELSE /\ r.ok
                  /\ Visible(r.s.RTPStreamQueue) = Visible(s.RTPStreamQueue) \o b

C9_Witness ==
    /\ last.op = "SendRTPMIDIBlock"
    /\ last.pre = SESSION_OPENED
    /\ Len(last.arg) = 2
    /\ ~last.ret
    /\ Queued(ep["A"].RTPStreamQueue) = 2
    /\ ep["A"].RTPStreamQueue.WritePtr < ep["A"].RTPStreamQueue.ReadPtr
    /\ ep["A"].SessionState = SESSION_OPENED

IsPrefix(a, b) == Len(a) <= Len(b) /\ \A i \in 1..Len(a) : a[i] = b[i]

(* C10 Outbound order: at every moment the MIDI bytes of the RTP datagrams *)
(* emitted so far, in order, are a prefix of the bytes of the accepted     *)
(* blocks in the order of their acceptance.                                *)
C10_OutboundOrder == IsPrefix(hist.emitted, hist.accepted)

(* the RTP datagrams among those a call has sent *)
RTPOf(out) == SelectSeq(out, LAMBDA d : d.cmd = "RTP")

(* C12 Sequence monotonicity.  In every reachable state, and also with    *)
(* the sequence counter at its last value K16 - 1, a RunSession emits at   *)
(* most one RTP datagram; if it emits one, the datagram carries the        *)
(* counter's value and the counter becomes that value plus 1 modulo 2^16;  *)
(* if it emits none, as it does whenever the ring is empty, the counter is *)
(* unchanged.  Between two steps of a session the counter changes only by  *)
(* such an emission.                                                       *)
C12_Ticks ==
    \A io \in QueueInputs, kept \in BOOLEAN :
        \A n \in {ep["A"].RTPSequence, K16 - 1} :
            LET s == [ep["A"] EXCEPT !.RTPSequence = n]
                m == RunSession(Machine(s, io[1], io[2]), "A", kept, ClockUnobserved)
                r == RTPOf(m.out)
            IN /\ Len(r) <= 1
               /\ Queued(s.RTPStreamQueue) = 0 => r = <<>>
               /\ IF r = <<>>
                    THEN m.s.RTPSequence = n
                    ELSE /\ r[1].seq = n
                         /\ m.s.RTPSequence = (n + 1) % K16
                         /\ m.s.RTPSequence \in 0..(K16 - 1)

C12_Steps ==
    \/ ep'["A"].RTPSequence = ep["A"].RTPSequence
    \/ /\ ep'["A"].RTPSequence = (ep["A"].RTPSequence + 1) % K16
       /\ hist'.emitted # hist.emitted

C12_SequenceMonotonic == [](C12_Ticks) /\ [][C12_Steps]_vars

C12_Witness ==
    /\ ep["A"].SessionState = SESSION_OPENED
    /\ ep["A"].RTPSequence = 2
    /\ Len(hist.emitted) >= 3
    /\ Queued(ep["A"].RTPStreamQueue) > 0

(* the values SessionState takes, RTP_MIDI.h:57-68 (SESSION_CLOSE and      *)
(* SESSION_CLOCK_SYNC2 are never assigned)                                 *)
SessionStates ==
    {SESSION_CLOSED, SESSION_INVITE_CONTROL, SESSION_INVITE_DATA,
     SESSION_CLOCK_SYNC0, SESSION_CLOCK_SYNC1, SESSION_OPENED,
     SESSION_WAIT_INVITE_CTRL, SESSION_WAIT_INVITE_DATA, SESSION_WAIT_CLOCK_SYNC}

(* C17 Session status.  getSessionStatus reads SessionState alone: for     *)
(* each of its values it returns 3 exactly for OPENED, 0 exactly for       *)
(* CLOSED, 1 exactly for INVITE_CTRL and INVITE_DATA and 2 for every other *)
(* state; and with every reachable content of the ring, a block that is    *)
(* not empty is accepted when the status is 3 and the block fits, and      *)
(* refused whenever the status is not 3.                                   *)
C17_StatusAndSend ==
    \A st \in SessionStates :
        LET s == [ep["A"] EXCEPT !.SessionState = st]
            v == getSessionStatus(s)
        IN /\ v \in 0..3
           /\ (v = 3) = (st = SESSION_OPENED)
           /\ (v = 0) = (st = SESSION_CLOSED)
           /\ (v = 1) = (st \in {SESSION_INVITE_CONTROL, SESSION_INVITE_DATA})
           /\ \A b \in Blocks \ {<<>>} :
                 LET r == SendRTPMIDIBlock(s, b)
                 IN IF v = 3
                      THEN Fits(s.RTPStreamQueue, b) => r.ok
                      ELSE ~r.ok

C17_Witness ==
    /\ getSessionStatus(ep["A"]) = 3
    /\ last.op = "SendRTPMIDIBlock" /\ last.ret /\ Len(last.arg) > 0
    /\ Queued(ep["A"].RTPStreamQueue) = MIDI_CHAR_FIFO_SIZE - 1

(* C11 Payload bound: in every reachable state GeneratePayload writes at   *)
(* most MAX_RTP_LOAD bytes into MIDIList, and every RTP datagram the next  *)
(* RunSession emits carries at most MAX_RTP_LOAD MIDI bytes.               *)
C11_PayloadBound ==
    /\ Len(GeneratePayload(ep["A"].RTPStreamQueue).MIDIList) <= MAX_RTP_LOAD
    /\ \A m \in TickResults("A", <<>>, <<>>, ClockUnobserved) :
          \A i \in 1..Len(RTPOf(m.out)) :
              Len(RTPOf(m.out)[i].list) <= MAX_RTP_LOAD

-----------------------------------------------------------------------------
(* SpecLocked: endpoint A with its application, which initiates it in      *)
(* either role, closes it, restarts it and gives it MIDI blocks, and a     *)
(* peer that invites it and opens the session.  The clocks are observed    *)
(* while the endpoint is locked.  The sockets stay open after              *)
(* CloseSession: the datagrams that reach a locked endpoint are those of   *)
(* C15_LockedTick, which looks at every arrival.  The endpoint is          *)
(* initiated                                                               *)
(* once; the blocks are given while the session is OPENED and has sent     *)
(* fewer than MaxProduced RTP datagrams, and their bytes all have one      *)
(* value, the ring being looked at for its pointers only.                  *)
LockedInputs == QueueInputs

LockedInitiate ==
    /\ ep["A"].EndpointLocked /\ ~ep["A"].SocketsOpen
    /\ \E IsInitiator \in BOOLEAN : DoInitiateSession("A", IsInitiator, TRUE)
    /\ UNCHANGED <<last, hist, thr, turn>>

LockedTick ==
    /\ \E io \in LockedInputs :
          /\ (io # NoArrival) => CanReceive("A")
          /\ ep["A"].InviteCount <= MaxInvites
          /\ DoRunSession("A", io[1], io[2],
                          IF ep["A"].EndpointLocked THEN ClockModulus
                                                    ELSE ClockUnobserved)
    /\ UNCHANGED <<last, hist, thr, turn>>

LockedSend ==
    /\ ep["A"].SessionState = SESSION_OPENED
    /\ ep["A"].RTPSequence < MaxProduced
    /\ \E n \in 1..MaxBlock : DoSendRTPMIDIBlock("A", [i \in 1..n |-> 1])
    /\ UNCHANGED <<last, hist, thr, turn>>

LockedClose == DoCloseSession("A") /\ UNCHANGED <<last, hist, thr, turn>>

LockedRestart == DoRestartSession("A") /\ UNCHANGED <<last, hist, thr, turn>>

NextLocked ==
    \/ LockedInitiate
    \/ LockedTick
    \/ LockedSend
    \/ LockedClose
    \/ LockedRestart

SpecLocked == InitCommon /\ [][NextLocked]_vars

(* C15 Locked tick: in every reachable state where the endpoint is locked, *)
(* whatever waits or arrives on its sockets, RunSession takes no datagram  *)
(* from either socket, sends none, and leaves every member as it was       *)
(* (session state, timer, partner, flags, ring, counters) except           *)
(* TimeCounter and LocalClock, which both advance by ClockStep.            *)
C15_LockedTick ==
    ep["A"].EndpointLocked =>
        \A io \in LockedInputs, kept \in BOOLEAN :
            LET cq == ctrlQ["A"] \o io[1]
                dq == dataQ["A"] \o io[2]
                m == RunSession(Machine(ep["A"], cq, dq), "A", kept, ClockModulus)
            IN /\ m.cq = cq /\ m.dq = dq
               /\ m.out = <<>>
               /\ m.s = [ep["A"] EXCEPT
                            !.TimeCounter = (@ + ClockStep) % ClockModulus,
                            !.LocalClock = (@ + ClockStep) % ClockModulus]
               /\ m.s.TimeCounter # ep["A"].TimeCounter
               /\ m.s.LocalClock # ep["A"].LocalClock

(* a session closed by the application while OPENED, with bytes left in    *)
(* the ring and the timer armed, after a first locked RunSession           *)
C15_Witness ==
    /\ ep["A"].EndpointLocked
    /\ ep["A"].SessionState = SESSION_CLOSED
    /\ ep["A"].SessionPartnerIP # 0
    /\ ep["A"].TimerRunning /\ ep["A"].EventTime = 1
    /\ Queued(ep["A"].RTPStreamQueue) > 0
    /\ ep["A"].TimeCounter = ClockStep

-----------------------------------------------------------------------------
(* SpecThreads: SendRTPMIDIBlock called from a producer thread while the   *)
(* consumer thread runs RunSession, statement by statement.  The ring has  *)
(* no lock and its members are plain variables ("TODO : add a semaphore"   *)
(* in SendRTPMIDIBlock), so the two threads race on FIFO, WritePtr and     *)
(* ReadPtr: nothing orders the producer's stores as the consumer sees      *)
(* them.  thr.pending holds the producer's stores that the consumer does   *)
(* not see yet; they become visible one at a time, in any order, except    *)
(* that two stores to one location keep their order.                       *)
Store(loc, idx, val) == [loc |-> loc, idx |-> idx, val |-> val]

(* WritePtr as the producer reads it: its own last store *)
RECURSIVE OwnWritePtr(_, _)
OwnWritePtr(pending, shared) ==
    IF pending = <<>> THEN shared
    ELSE IF pending[Len(pending)].loc = "WritePtr" THEN pending[Len(pending)].val
    ELSE OwnWritePtr(SubSeq(pending, 1, Len(pending) - 1), shared)

Applied(q, st) ==
    IF st.loc = "WritePtr" THEN [q EXCEPT !.WritePtr = st.val]
    ELSE [q EXCEPT !.FIFO[st.idx] = st.val]

Without(seq, i) == SubSeq(seq, 1, i - 1) \o SubSeq(seq, i + 1, Len(seq))

ThreadsInitiate ==
    /\ ep["A"].EndpointLocked
    /\ DoInitiateSession("A", FALSE, TRUE)
    /\ UNCHANGED <<last, hist, thr, turn>>

(* SendRTPMIDIBlock, entry: a block of n >= 1 bytes while the session is   *)
(* OPENED (the other calls return at once and change nothing)              *)
ProdCall ==
    \E n \in 1..MaxBlock :
        /\ thr.ppc = "idle"
        /\ Len(hist.accepted) + n <= MaxProduced
        /\ ep["A"].SessionState = SESSION_OPENED
        /\ thr' = [thr EXCEPT
              !.ppc = "copy",
              !.block = Offered(n),
              !.TmpWrite = OwnWritePtr(thr.pending, ep["A"].RTPStreamQueue.WritePtr),
              !.ByteCounter = 0]
        /\ UNCHANGED <<ep, ctrlQ, dataQ, last, hist, turn>>

(* one round of the for loop: store the byte, advance, test for full *)
ProdCopy ==
    /\ thr.ppc = "copy"
    /\ LET st == Store("FIFO", thr.TmpWrite, thr.block[thr.ByteCounter + 1])
           w == NextPtr(thr.TmpWrite)
       IN thr' = [thr EXCEPT
             !.pending = Append(@, st),
             !.TmpWrite = w,
             !.ByteCounter = @ + 1,
             !.ppc = IF w = ep["A"].RTPStreamQueue.ReadPtr THEN "idle"
                     ELSE IF thr.ByteCounter + 1 = Len(thr.block) THEN "publish"
                     ELSE "copy"]
    /\ UNCHANGED <<ep, ctrlQ, dataQ, last, hist, turn>>

(* RTPStreamQueue.WritePtr = TmpWrite; return true *)
ProdPublish ==
    /\ thr.ppc = "publish"
    /\ thr' = [thr EXCEPT !.pending = Append(@, Store("WritePtr", 0, thr.TmpWrite)),
                          !.ppc = "idle"]
    /\ hist' = [hist EXCEPT !.accepted = @ \o thr.block]
    /\ UNCHANGED <<ep, ctrlQ, dataQ, last, turn>>

(* a store of the producer becomes visible to the consumer *)
StoreVisible ==
    \E i \in 1..Len(thr.pending) :
        /\ \A j \in 1..(i - 1) :
              ~(thr.pending[j].loc = thr.pending[i].loc
                /\ thr.pending[j].idx = thr.pending[i].idx)
        /\ ep' = [ep EXCEPT !["A"].RTPStreamQueue = Applied(@, thr.pending[i])]
        /\ thr' = [thr EXCEPT !.pending = Without(@, i)]
        /\ UNCHANGED <<ctrlQ, dataQ, last, hist, turn>>

(* RunSession up to GeneratePayload's snapshot of WritePtr *)
ConsBegin ==
    \E io \in QueueInputs :
        /\ thr.cpc = "idle"
        /\ (io # NoArrival) => CanReceive("A")
        /\ LET m == BeforePayload(Machine(ep["A"], io[1], io[2]), "A", ClockUnobserved)
           IN /\ ep' = [ep EXCEPT !["A"] = m.s]
              /\ thr' = IF ToSend(m)
                          THEN [thr EXCEPT !.cpc = "copy",
                                           !.MIDIBlockEnd = m.s.RTPStreamQueue.WritePtr,
                                           !.MIDIList = <<>>,
                                           !.TimerEvent = m.TimerEvent]
                          ELSE thr
        /\ UNCHANGED <<ctrlQ, dataQ, last, hist, turn>>

(* one round of GeneratePayload's while loop *)
ConsCopy ==
    /\ thr.cpc = "copy"
    /\ ep["A"].RTPStreamQueue.ReadPtr # thr.MIDIBlockEnd
    /\ thr' = [thr EXCEPT !.MIDIList =
                 Append(@, ep["A"].RTPStreamQueue.FIFO[ep["A"].RTPStreamQueue.ReadPtr])]
    /\ ep' = [ep EXCEPT !["A"].RTPStreamQueue.ReadPtr = NextPtr(@)]
    /\ UNCHANGED <<ctrlQ, dataQ, last, hist, turn>>

(* GeneratePayload returns; RunSession sends the message and goes on *)
ConsEnd ==
    /\ thr.cpc = "copy"
    /\ ep["A"].RTPStreamQueue.ReadPtr = thr.MIDIBlockEnd
    /\ \E kept \in IF Len(thr.MIDIList) > MAX_RTP_LOAD THEN BOOLEAN ELSE {TRUE} :
         LET m == AfterPayload([Machine(ep["A"], <<>>, <<>>)
                                  EXCEPT !.TimerEvent = thr.TimerEvent],
                               "A", ep["A"].RTPStreamQueue, thr.MIDIList, kept)
         IN /\ ep' = [ep EXCEPT !["A"] = m.s]
            /\ hist' = [hist EXCEPT !.emitted = @ \o Payloads(m.out)]
    /\ thr' = [thr EXCEPT !.cpc = "idle", !.MIDIList = <<>>, !.TimerEvent = FALSE]
    /\ UNCHANGED <<ctrlQ, dataQ, last, turn>>

NextThreads ==
    \/ ThreadsInitiate
    \/ ProdCall
    \/ ProdCopy
    \/ ProdPublish
    \/ StoreVisible
    \/ ConsBegin
    \/ ConsCopy
    \/ ConsEnd

SpecThreads == InitCommon /\ [][NextThreads]_vars

(* C8 Ring atomicity under one producer and one consumer: whatever the     *)
(* interleaving of SendRTPMIDIBlock with GeneratePayload, the bytes the    *)
(* consumer has read so far (those already sent and those of the payload   *)
(* it is building) are the first bytes of the blocks whose calls returned  *)
(* true, in order: no byte of a call that returned false or has not        *)
(* returned, no byte missing, repeated or overwritten.                     *)
C8_RingAtomicity == IsPrefix(hist.emitted \o thr.MIDIList, hist.accepted)

-----------------------------------------------------------------------------
(* The standard variable-length encoding of v: its base-128 digits, the    *)
(* most significant first, 0x80 added to every digit but the last.         *)
RECURSIVE VLQDigits(_)
VLQDigits(v) ==
    IF v < HighBit THEN <<v>> ELSE Append(VLQDigits(v \div HighBit), v % HighBit)

VLQ(v) ==
    LET d == VLQDigits(v)
    IN [i \in 1..Len(d) |-> IF i < Len(d) THEN d[i] + HighBit ELSE d[i]]

(* SpecVLQ: a delta-time v is encoded into a buffer after some bytes that  *)
(* belong to what precedes it, and GetDeltaTime is called on it.  The      *)
(* values are those whose four base-128 digits are taken from DigitKinds,  *)
(* so that encodings of 1, 2, 3 and 4 bytes occur; last holds the call.    *)
MaxSkip == 1                \* bytes of the buffer before the delta-time
DigitKinds == {0, 1, HighBit - 1}

VLQValues ==
    {((d[1] * HighBit + d[2]) * HighBit + d[3]) * HighBit + d[4] :
        d \in [1..4 -> DigitKinds]}

InitVLQ ==
    /\ ep = [e \in Endpoints |-> Constructed(0)]
    /\ ctrlQ = [e \in Endpoints |-> <<>>]
    /\ dataQ = [e \in Endpoints |-> <<>>]
    /\ hist = NoHist
    /\ thr = NoThr
    /\ turn = "A"
    /\ \E v \in VLQValues, skip \in 0..MaxSkip, CharSigned \in BOOLEAN :
          last = [op |-> "encoded", v |-> v, CharSigned |-> CharSigned,
                  BufPtr |-> [i \in 1..skip |-> HighBit] \o VLQ(v),
                  start |-> skip, ByteCtr |-> skip, value |-> 0]

VLQDecode ==
    /\ last.op = "encoded"
    /\ LET r == GetDeltaTime(last.BufPtr, last.ByteCtr, last.CharSigned)
       IN last' = [last EXCEPT !.op = "GetDeltaTime", !.value = r.value,
                               !.ByteCtr = r.ByteCtr]
    /\ UNCHANGED <<ep, ctrlQ, dataQ, hist, thr, turn>>

NextVLQ == VLQDecode

SpecVLQ == InitVLQ /\ [][NextVLQ]_vars

(* C20 Variable-length quantity round trip: GetDeltaTime called on the     *)
(* standard encoding of v returns v and advances the byte counter by the   *)
(* length of the encoding.                                                 *)
C20_VLQRoundTrip ==
    last.op = "GetDeltaTime" =>
        /\ last.value = last.v
        /\ last.ByteCtr = last.start + Len(VLQ(last.v))

-----------------------------------------------------------------------------
(* SpecDecoder: endpoint A receives RTP-MIDI datagrams.  Its partner B     *)
(* answers the handshake (the one datagram that A's state waits for) and,  *)
(* once the session is opened, sends RTP datagrams whose MIDI lists are    *)
(* taken from DecoderLists; it answers the handshake before A's next call  *)
(* of RunSession and never answers the keep-alive, so that the session is  *)
(* lost and started again in the course of the run.  The                   *)
(* application starts the session as initiator and restarts it at any      *)
(* time.  The decoder does not depend on the role.                         *)
UninitStatus == {0, 144}

NoteOn == 144               \* 0x90, a channel status below 0xC0
TimingClock == MIDI_REALTIME

RTPDatagram(list, z) ==
    [EnvDatagram("A", "data", "RTP", IPOf("B"), 0)
     EXCEPT !.list = list, !.z = z, !.seq = 0]

DecoderLists ==
    { <<MIDI_SYSEX, TimingClock, 1, MIDI_SYSEX>>,
      <<MIDI_EOX, 1, MIDI_SYSEX>>,
      <<MIDI_EOX, 1, MIDI_EOX>>,
      <<NoteOn, 1, 1>>,
      <<NoteOn, 1>>,
      <<MIDI_SONG_POSITION, 1, 1>> }

DecoderInit ==
    /\ \E rs \in UninitStatus :
          ep = [e \in Endpoints |->
                  IF e = "A" THEN [Constructed(0) EXCEPT !.RTPRunningStatus = rs]
                             ELSE Constructed(0)]
    /\ ctrlQ = [e \in Endpoints |-> <<>>]
    /\ dataQ = [e \in Endpoints |-> <<>>]
    /\ last = NoLast
    /\ hist = NoHist
    /\ thr = NoThr
    /\ turn = "A"

(* what B sends to A in A's session state *)
PartnerSends(s) ==
    IF s.SessionState = SESSION_INVITE_CONTROL
      THEN {<<<<EnvDatagram("A", "ctrl", "OK", IPOf("B"), 0)>>, <<>>>>}
    ELSE IF s.SessionState = SESSION_INVITE_DATA
      THEN {<<<<>>, <<EnvDatagram("A", "data", "OK", IPOf("B"), 0)>>>>}
    ELSE IF s.SessionState = SESSION_CLOCK_SYNC1
      THEN {<<<<>>, <<EnvDatagram("A", "data", "CK", IPOf("B"), 1)>>>>}
    ELSE IF s.SessionState = SESSION_WAIT_INVITE_CTRL
      THEN {<<<<EnvDatagram("A", "ctrl", "IN", IPOf("B"), 0)>>, <<>>>>}
    ELSE IF s.SessionState = SESSION_WAIT_INVITE_DATA
      THEN {<<<<>>, <<EnvDatagram("A", "data", "IN", IPOf("B"), 0)>>>>}
    ELSE IF s.SessionState = SESSION_WAIT_CLOCK_SYNC
      THEN {<<<<>>, <<EnvDatagram("A", "data", "CK", IPOf("B"), 2)>>>>}
    ELSE {}

DecoderInitiate == DoInitiateSession("A", TRUE, TRUE) /\ Unobserved

DecoderRestart == DoRestartSession("A") /\ Unobserved

DecoderIdleTick ==
    /\ ep["A"].EndpointLocked \/ PartnerSends(ep["A"]) = {}
    /\ DoRunSession("A", <<>>, <<>>, ClockUnobserved)
    /\ Unobserved

DecoderHandshake ==
    /\ CanReceive("A")
    /\ \E io \in PartnerSends(ep["A"]) :
          DoRunSession("A", io[1], io[2], ClockUnobserved)
    /\ Unobserved

DecoderReceive ==
    /\ CanReceive("A")
    /\ ep["A"].SessionState = SESSION_OPENED
    /\ \E list \in DecoderLists :
          DoRunSession("A", <<>>, <<RTPDatagram(list, FALSE)>>, ClockUnobserved)
    /\ Unobserved

NextDecoder ==
    \/ DecoderInitiate
    \/ DecoderRestart
    \/ DecoderIdleTick
    \/ DecoderHandshake
    \/ DecoderReceive

SpecDecoder == DecoderInit /\ [][NextDecoder]_vars

(* The decoder of A receives the MIDI list of one datagram in the current  *)
(* state.  RunSession makes this call for a datagram of the partner while  *)
(* the session is opened (RTP_MIDI.cpp:431-438).                           *)
Receiving ==
    /\ CanReceive("A")
    /\ ep["A"].SessionState = SESSION_OPENED
    /\ ep["A"].RTPCallback

Decoded(list, z) == ProcessIncomingRTP(Call("A"), RTPDatagram(list, z))

(* the next datagram, received after the call that left the machine m *)
DecodedNext(m, list, z) ==
    ProcessIncomingRTP(Machine(m.s, <<>>, <<>>), RTPDatagram(list, z))

(* the bytes given to the callback, call by call *)
Events(m) == [i \in 1..Len(m.cb) |-> m.cb[i].DataBlock]

(* the decoder is idle: no SYSEX message and no MIDI message is under way *)
DecoderIdle(s) == ~s.SYSEX_RTPActif /\ ~s.IncomingThirdByte

MaxPairs == 2               \* data-byte pairs after the first message
ChannelStatus3 == {128, 191, 224, 239}
DeltaKinds == {VLQ(0), VLQ(HighBit)}

Pair(i) == <<i, (HighBit - 1) - i>>

RECURSIVE RunningPairs(_, _)
RunningPairs(delta, N) ==
    IF N = 0 THEN <<>> ELSE RunningPairs(delta, N - 1) \o delta \o Pair(N)

(* C21 Running status: a MIDI list made of a channel status S of a 3-byte  *)
(* message (0x80-0xBF, 0xE0-0xEF) with its two data bytes, followed by N   *)
(* pairs of data bytes, each after a delta-time and without a status byte, *)
(* gives N+1 calls of the callback, in order, each of 3 bytes: S and the   *)
(* two data bytes of the pair.  The running status is kept from one        *)
(* datagram to the next: N further pairs in the next datagram give N       *)
(* further calls with S.                                                   *)
C21_RunningStatus ==
    Receiving =>
        \A S \in ChannelStatus3, N \in 0..MaxPairs, delta \in DeltaKinds,
           z \in BOOLEAN :
            LET first == (IF z THEN delta ELSE <<>>) \o <<S>> \o Pair(0)
                m1 == Decoded(first \o RunningPairs(delta, N), z)
                m2 == DecodedNext(m1, RunningPairs(delta, N), TRUE)
            IN /\ Events(m1) = [i \in 1..(N + 1) |-> <<S>> \o Pair(i - 1)]
               /\ Events(m2) = [i \in 1..N |-> <<S>> \o Pair(i)]
               /\ m2.s.RTPRunningStatus = S

(* a state in which the claim's case has happened: a message has been      *)
(* decoded with running status 0x90 and the decoder is ready for more      *)
C21_Witness ==
    /\ Receiving
    /\ ep["A"].RTPRunningStatus = NoteOn
    /\ ep["A"].FullInMidiMsg = [i \in 0..2 |-> IF i = 0 THEN NoteOn ELSE 1]
    /\ DecoderIdle(ep["A"])

(* No SYSEX message is under way and the SYSEX buffer is empty *)
SysExIdle(s) == ~s.SYSEX_RTPActif /\ s.InSYSEXBufferPtr = 0

SysExData == {0, 1, HighBit - 1}
SysExBodies(n) == SeqsUpTo(SysExData, n)
Framed(b) == <<MIDI_SYSEX>> \o b \o <<MIDI_EOX>>

(* C22 SysEx reassembly: with the decoder idle, a datagram holding         *)
(* F0 b F7, b any data bytes and the framed message no longer than         *)
(* SYXInSize, gives exactly one callback, of Len(b) + 2 bytes F0 b F7, and *)
(* leaves SYSEX_RTPActif false and InSYSEXBufferPtr 0.                     *)
C22_SysExReassembly ==
    (Receiving /\ SysExIdle(ep["A"])) =>
        \A b \in SysExBodies(SYXInSize - 2), z \in BOOLEAN :
            LET m == Decoded((IF z THEN VLQ(0) ELSE <<>>) \o Framed(b), z)
            IN /\ Events(m) = <<Framed(b)>>
               /\ ~m.s.SYSEX_RTPActif
               /\ m.s.InSYSEXBufferPtr = 0

(* C23 Segmented SysEx: with the decoder idle, F0 b1 F0 in one datagram    *)
(* and F7 b2 F7 in the next, b1 and b2 data bytes and F0 b1 b2 F7 no       *)
(* longer than SYXInSize, give no callback after the first datagram and    *)
(* exactly one after the second, with the bytes F0 b1 b2 F7: the inner     *)
(* F0 and F7 are not stored.                                               *)
C23_SegmentedSysEx ==
    (Receiving /\ SysExIdle(ep["A"])) =>
        \A b1 \in SysExBodies(SYXInSize - 2), b2 \in SysExBodies(SYXInSize - 2) :
            (Len(b1) + Len(b2) + 2 <= SYXInSize) =>
                LET m1 == Decoded(<<MIDI_SYSEX>> \o b1 \o <<MIDI_SYSEX>>, FALSE)
                    m2 == DecodedNext(m1, <<MIDI_EOX>> \o b2 \o <<MIDI_EOX>>, FALSE)
                IN /\ Events(m1) = <<>>
                   /\ Events(m2) = <<Framed(b1 \o b2)>>

(* C24 Real-time inside SysEx: a byte r in 0xF8..0xFF received while a     *)
(* SysEx is being accumulated is given at once to the callback, alone; it  *)
(* leaves the SysEx under way, the running status and the SysEx buffer as  *)
(* they were (only FullInMidiMsg[0], the callback's block, holds r); the   *)
(* SysEx delivered at the F7 is the one delivered for the same bytes       *)
(* without r, and it is F0 b1 b2 F7 when the buffer holds the message.     *)
RealTimeBytes == {MIDI_REALTIME, 255}
BodiesBefore == {<<>>, <<1>>, <<1, 2>>}
BodiesAfter == {<<>>, <<3>>, <<3, 4>>}

(* the bytes that bring the decoder of s inside a SYSEX segment *)
IntoSegment(s) ==
    IF ~s.SYSEX_RTPActif THEN <<MIDI_SYSEX>>
    ELSE IF ~s.SegmentSYSEXInput THEN <<MIDI_EOX>>
    ELSE <<>>

Holding(s, r) == [s EXCEPT !.FullInMidiMsg[0] = r]

MaxOver == 3                \* bytes of a SysEx beyond SYXInSize

C25_SysExOverflow ==
    (Receiving /\ SysExIdle(ep["A"])) =>
        \A n \in (SYXInSize - 1)..(SYXInSize - 2 + MaxOver) :
            LET F == Framed([i \in 1..n |-> i])
                m == Decoded(F, FALSE)
            IN /\ Events(m) = <<SubSeq(F, 1, SYXInSize)>>
               /\ \A k \in 1..(Len(F) - 1) :
                     Decoded(SubSeq(F, 1, k), FALSE).s.InSYSEXOverflow
                        = (k > SYXInSize)

C28_SysExPtrZero ==
    /\ ~ep["A"].SYSEX_RTPActif => ep["A"].InSYSEXBufferPtr = 0
    /\ (Receiving /\ ~ep["A"].SYSEX_RTPActif) =>
           \A m \in {Decoded(Framed(<<1>>), FALSE)} :
               \A i \in 1..Len(m.cb) : m.cb[i].DataBlock[1] = MIDI_SYSEX
                                       /\ m.cb[i].DataBlock[2] = 1

-----------------------------------------------------------------------------
(* SpecPartner: endpoint A alone, as in Spec, with every way of calling    *)
(* InitiateSession: either role, towards the peer or towards address 0,    *)
(* the sockets created or not.                                             *)
InitiateAny ==
    /\ \E IsInitiator \in BOOLEAN, DestIP \in {0, PeerIP}, SocketOK \in BOOLEAN,
          r1 \in RandValues, r2 \in RandValues :
          Commit("A", Machine(InitiateSession(ep["A"], DestIP, CtrlPort, DataPort,
                                              IsInitiator, r1, r2, SocketOK),
                              <<>>, <<>>))
    /\ Unobserved

NextPartner ==
    \/ InitiateAny
    \/ Close
    \/ Restart
    \/ Tick

SpecPartner == Init /\ [][NextPartner]_vars

(* C27 In every reachable state, whatever the role, the datagrams          *)
(* received from non-zero addresses, the timeouts, the restarts and the    *)
(* calls of the application: SessionState = OPENED implies                 *)
(* SessionPartnerIP # 0.                                                   *)
C27_OpenedHasPartner ==
    ep["A"].SessionState = SESSION_OPENED => ep["A"].SessionPartnerIP # 0

(* a listener whose partner closed an earlier session (SessionPartnerIP    *)
(* was cleared) is in an opened session again                              *)
C27_Witness ==
    /\ ep["A"].SessionState = SESSION_OPENED
    /\ ~ep["A"].IsInitiatorNode
    /\ ep["A"].PeerClosedSession
    /\ ep["A"].SessionPartnerIP = PeerIP

(* the receive loop of RunSession with the datagram p of the partner alone *)
(* on the data socket                                                      *)
DataReceived(p) == DrainSockets([Call("A") EXCEPT !.dq = <<p>>], "A")

PartnerBound == CanReceive("A") /\ ep["A"].SessionPartnerIP = PeerIP

PartnerCK(n) == EnvDatagram("A", "data", "CK", PeerIP, n)

(* C29 as stated: a CK of the partner processed on the data socket,        *)
(* whatever its count (0, 1 or 2), leaves TimeOutRemote = 4; received      *)
(* RTP-MIDI data never changes TimeOutRemote.                              *)
C29_AnyCKReloads ==
    PartnerBound =>
        /\ \A n \in 0..2 :
              DataReceived(PartnerCK(n)).s.TimeOutRemote = TimeOutRemoteReload
        /\ \A list \in DecoderLists, z \in BOOLEAN :
              DataReceived(RTPDatagram(list, z)).s.TimeOutRemote
                 = ep["A"].TimeOutRemote

(* C29 amended: a CK of the partner with count 1 or 2 processed on the     *)
(* data socket leaves TimeOutRemote = 4 and one with count 0 leaves        *)
(* TimeOutRemote as it was; received RTP-MIDI data never changes           *)
(* TimeOutRemote.                                                          *)
C29_CKReloads ==
    PartnerBound =>
        /\ \A n \in 1..2 :
              DataReceived(PartnerCK(n)).s.TimeOutRemote = TimeOutRemoteReload
        /\ DataReceived(PartnerCK(0)).s.TimeOutRemote = ep["A"].TimeOutRemote
        /\ \A list \in DecoderLists, z \in BOOLEAN :
              DataReceived(RTPDatagram(list, z)).s.TimeOutRemote
                 = ep["A"].TimeOutRemote

(* an opened session whose keep-alive credit has been used down to 1: the  *)
(* next CK of the partner is what keeps the session                        *)
C29_Witness ==
    /\ PartnerBound
    /\ ep["A"].SessionState = SESSION_OPENED
    /\ ep["A"].TimeOutRemote = 1
    /\ DataReceived(PartnerCK(2)).s.TimeOutRemote = TimeOutRemoteReload
    /\ DataReceived(PartnerCK(0)).s.TimeOutRemote = 1

-----------------------------------------------------------------------------
(* SpecCadence: endpoint A in either role with a partner that follows the  *)
(* handshake, answers the keep-alive or not, and closes the session (BY)   *)
(* or not.  hist.ticks counts the keep-alive timer events of the current   *)
(* opened session and last.op tells whether the last call of RunSession    *)
(* had one.                                                                *)
MaxKeepAlive == 7           \* keep-alive timer events followed in one session

(* the keep-alive block of RunSession (lines 594-620) runs in this call *)
KeepAliveFires(cq, dq) ==
    LET b == BeforePayload(Machine(ep["A"], ctrlQ["A"] \o cq, dataQ["A"] \o dq),
                           "A", ClockUnobserved)
    IN ToSend(b) /\ b.TimerEvent

(* what the partner can send to an opened session *)
PartnerKeepsOrCloses(s) ==
    IF s.SessionState # SESSION_OPENED THEN {}
    ELSE { <<<<>>, <<EnvDatagram("A", "data", "CK", PeerIP,
                                 IF s.IsInitiatorNode THEN 1 ELSE 2)>>>>,
           <<<<EnvDatagram("A", "ctrl", "BY", PeerIP, 0)>>, <<>>>> }

CadenceArrivals(s) ==
    IF ~CanReceive("A") THEN {<<<<>>, <<>>>>}
    ELSE IF PartnerSends(s) # {} THEN PartnerSends(s)
    ELSE {<<<<>>, <<>>>>} \cup PartnerKeepsOrCloses(s)

CadenceInitiate ==
    /\ \E IsInitiator \in BOOLEAN : DoInitiateSession("A", IsInitiator, TRUE)
    /\ last' = NoLast
    /\ hist' = NoHist
    /\ UNCHANGED <<thr, turn>>

CadenceRestart ==
    /\ DoRestartSession("A")
    /\ last' = NoLast
    /\ hist' = [hist EXCEPT !.ticks = IF ep'["A"].SessionState = SESSION_OPENED
                                        THEN @ ELSE 0]
    /\ UNCHANGED <<thr, turn>>

CadenceTick ==
    /\ hist.ticks < MaxKeepAlive
    /\ \E io \in CadenceArrivals(ep["A"]) :
          LET fired == KeepAliveFires(io[1], io[2])
              wasOpened == ep["A"].SessionState = SESSION_OPENED
          IN /\ DoRunSession("A", io[1], io[2], ClockUnobserved)
             /\ last' = [NoLast EXCEPT !.op = IF fired THEN "KeepAlive"
                                                       ELSE "RunSession"]
             /\ hist' = [hist EXCEPT !.ticks =
                           IF ep'["A"].SessionState # SESSION_OPENED THEN 0
                           ELSE IF fired THEN (IF wasOpened THEN @ ELSE 0) + 1
                           ELSE IF wasOpened THEN @ ELSE 0]
    /\ UNCHANGED <<thr, turn>>

NextCadence ==
    \/ CadenceInitiate
    \/ CadenceRestart
    \/ CadenceTick

SpecCadence == Init /\ [][NextCadence]_vars

(* C30 Keep-alive cadence: in every opened session of the endpoint, the    *)
(* first, the second or a later one, initiator or listener, the first 5    *)
(* keep-alive timer events re-arm the timer with 1500 ms and every later   *)
(* one re-arms it with 10000 ms.                                           *)
FastEvents == 5             \* keep-alive events re-armed with 1500 ms

C30_KeepAliveCadence ==
    (last.op = "KeepAlive" /\ ep["A"].SessionState = SESSION_OPENED) =>
        /\ ep["A"].TimerRunning
        /\ ep["A"].EventTime = IF hist.ticks <= FastEvents THEN TimerSyncFast
                                                           ELSE TimerSyncSlow

-----------------------------------------------------------------------------
(* Properties of the receive loop, on the reachable states of SpecPartner. *)
(* DataFrom(ip) are the datagrams the data socket can receive from ip.     *)
RTPFrom(ip, list) ==
    [EnvDatagram("A", "data", "RTP", ip, 0) EXCEPT !.list = list, !.seq = 1]

DataFrom(ip) ==
    {EnvDatagram("A", "data", c, ip, 0) : c \in {"IN", "OK", "NO", "BY"}}
    \cup {EnvDatagram("A", "data", "CK", ip, n) : n \in 0..2}
    \cup {RTPFrom(ip, <<NoteOn, 1, 1>>)}

OnData(p) == <<<<>>, <<p>>>>
OnCtrl(p) == <<<<p>>, <<>>>>

SenderIPs == {PeerIP, OtherIP}

CtrlFrom(ip) ==
    {EnvDatagram("A", "ctrl", c, ip, 0) : c \in {"IN", "OK", "NO", "BY", "XX"}}

(* one datagram on one socket, from the peer or from a third party *)
AnyArrival ==
    UNION {{OnCtrl(p) : p \in CtrlFrom(ip)} \cup {OnData(p) : p \in DataFrom(ip)} :
              ip \in SenderIPs}

IsPartnerCK(io, s, n) ==
    /\ io[1] = <<>> /\ Len(io[2]) = 1
    /\ io[2][1].cmd = "CK" /\ io[2][1].count = n
    /\ io[2][1].ip = s.SessionPartnerIP

(* C32 OPENED is entered only through the clock handshake: a call of       *)
(* RunSession that finds the state other than OPENED and leaves it OPENED  *)
(* found an initiator in CLOCK_SYNC1 and received CK count 1 of the        *)
(* partner, or found a listener in WAIT_CLOCK_SYNC and received CK count 2 *)
(* of the partner.                                                         *)
C32_OpenedByHandshake ==
    (CanReceive("A") /\ ep["A"].SessionState # SESSION_OPENED) =>
        \A io \in AnyArrival :
            After(io).s.SessionState = SESSION_OPENED =>
                \/ /\ ep["A"].IsInitiatorNode
                   /\ ep["A"].SessionState = SESSION_CLOCK_SYNC1
                   /\ IsPartnerCK(io, ep["A"], 1)
                \/ /\ ~ep["A"].IsInitiatorNode
                   /\ ep["A"].SessionState = SESSION_WAIT_CLOCK_SYNC
                   /\ IsPartnerCK(io, ep["A"], 2)

IsPartnerBY(io, s) ==
    \E i \in 1..2 : /\ Len(io[i]) = 1
                    /\ io[i][1].cmd = "BY"
                    /\ io[i][1].ip = s.SessionPartnerIP

(* C33 OPENED is stable: a call of RunSession that finds the state OPENED  *)
(* and the keep-alive credit not about to run out, and that receives one   *)
(* datagram other than a BY of the partner (IN, OK, NO, CK, RTP-MIDI or an *)
(* unknown packet, from the partner or from anyone else), leaves the state *)
(* OPENED.                                                                 *)
C33_OpenedStable ==
    (CanReceive("A") /\ ep["A"].SessionState = SESSION_OPENED
                     /\ ep["A"].TimeOutRemote > 1) =>
        \A io \in AnyArrival :
            ~IsPartnerBY(io, ep["A"]) =>
                After(io).s.SessionState = SESSION_OPENED

(* C35 Role/state separation: an initiator is never in WAIT_INVITE_CTRL,   *)
(* WAIT_INVITE_DATA or WAIT_CLOCK_SYNC and a listener is never in          *)
(* INVITE_CTRL, INVITE_DATA, CLOCK_SYNC0 or CLOCK_SYNC1.                   *)
ListenerStates ==
    {SESSION_WAIT_INVITE_CTRL, SESSION_WAIT_INVITE_DATA, SESSION_WAIT_CLOCK_SYNC}
InitiatorStates ==
    {SESSION_INVITE_CONTROL, SESSION_INVITE_DATA, SESSION_CLOCK_SYNC0,
     SESSION_CLOCK_SYNC1}

C35_RoleStates ==
    IF ep["A"].IsInitiatorNode
      THEN ep["A"].SessionState \notin ListenerStates
      ELSE ep["A"].SessionState \notin InitiatorStates

(* C39 Reply correlation: an OK or a NO received on the control socket by  *)
(* an initiator from an address other than the one it invited, or with an  *)
(* initiator token other than the one of its IN, leaves what RunSession    *)
(* does unchanged.                                                         *)
Reply(cmd, ip, token) ==
    [EnvDatagram("A", "ctrl", cmd, ip, 0) EXCEPT !.token = token]

ReplyTokens == {EnvToken, Mul32ByAllOnes(1)}

C39_ReplyCorrelation ==
    (CanReceive("A") /\ ep["A"].IsInitiatorNode) =>
        \A cmd \in {"OK", "NO"}, ip \in SenderIPs, token \in ReplyTokens :
            (ip # ep["A"].RemoteIPToInvite \/ token # ep["A"].InitiatorToken) =>
                After(OnCtrl(Reply(cmd, ip, token))) = After(NoArrival)

(* the receive loop of RunSession with the datagram p alone on the control *)
(* socket                                                                  *)
CtrlReceived(p) == DrainSockets([Call("A") EXCEPT !.cq = <<p>>], "A")

OtherPort == CtrlPort + 2

InviteFrom(ip, port) ==
    [EnvDatagram("A", "ctrl", "IN", ip, 0) EXCEPT !.port = port]

HasPartner(s) ==
    /\ ~s.IsInitiatorNode
    /\ s.SessionState \in {SESSION_WAIT_INVITE_DATA, SESSION_WAIT_CLOCK_SYNC,
                           SESSION_OPENED}

(* the call has sent exactly one reply cmd, on the control socket, to      *)
(* (ip, port)                                                              *)
Replied(m, cmd, ip, port) ==
    /\ Len(m.out) = 1
    /\ m.out[1].sock = "ctrl" /\ m.out[1].cmd = cmd
    /\ m.out[1].dip = ip /\ m.out[1].dport = port

(* C36 Single partner: a listener in WAIT_INVITE_DATA, WAIT_CLOCK_SYNC or  *)
(* OPENED that receives an IN on the control socket from an (IP, port)     *)
(* other than its partner's sends one NO to that source and keeps all its  *)
(* members (state, partner, timer, TimeOutRemote); an IN from its          *)
(* partner's (IP, port) is answered with one OK to the partner, and state  *)
(* and partner stay.                                                       *)
C36_SinglePartner ==
    (CanReceive("A") /\ HasPartner(ep["A"])) =>
        \A ip \in SenderIPs, port \in {CtrlPort, OtherPort} :
            LET m == CtrlReceived(InviteFrom(ip, port))
            IN IF ip = ep["A"].SessionPartnerIP /\ port = ep["A"].PartnerControlPort
                 THEN /\ Replied(m, "OK", ip, port)
                      /\ m.s.SessionState = ep["A"].SessionState
                      /\ m.s.SessionPartnerIP = ep["A"].SessionPartnerIP
                      /\ m.s.PartnerControlPort = ep["A"].PartnerControlPort
                 ELSE /\ Replied(m, "NO", ip, port)
                      /\ m.s = ep["A"]

(* a listener in an opened session with the peer refuses a third party *)
C36_Witness ==
    /\ CanReceive("A") /\ HasPartner(ep["A"])
    /\ ep["A"].SessionState = SESSION_OPENED
    /\ ep["A"].SessionPartnerIP = PeerIP
    /\ Replied(CtrlReceived(InviteFrom(OtherIP, CtrlPort)), "NO", OtherIP, CtrlPort)

-----------------------------------------------------------------------------
(* SpecName: endpoint A alone, as in Spec, whose application also records  *)
(* a session name, empty or not, short enough or too long.                 *)
SessionNames == {<<>>, <<83, 49>>, <<83, 49, 50>>}

SetName ==
    /\ \E Name \in SessionNames :
          Commit("A", [Call("A") EXCEPT !.s = setSessionName(ep["A"], Name)])
    /\ Unobserved

NextName ==
    \/ SetName
    \/ Initiate
    \/ Tick

SpecName == Init /\ [][NextName]_vars

(* the bytes after the SSRC of a datagram sent with session name n *)
WireName(n) == IF n = <<>> THEN <<>> ELSE n \o <<0>>

(* C37 Session name on the wire: every IN, OK and NO that RunSession sends *)
(* carries, after the SSRC, the session name recorded by setSessionName    *)
(* followed by a 0 when the name is not empty, and nothing when it is      *)
(* empty.                                                                  *)
C37_NameOnWire ==
    \A io \in Inputs :
        TickEnabled(io) =>
            \A i \in 1..Len(After(io).out) :
                After(io).out[i].cmd \in {"IN", "OK", "NO"} =>
                    After(io).out[i].name = WireName(ep["A"].SessionName)

-----------------------------------------------------------------------------
(* SpecBounds: the decoder is given one RTP-MIDI payload: received bytes   *)
(* of MIDI list, a declared length LEN that is the number of bytes         *)
(* received or one more or one less, and the Z bit.  The reception buffer  *)
(* holds, after the bytes received, whatever was there before: each such   *)
(* byte is a continuation byte or not.  last holds the call.               *)
MaxList == 3                \* bytes of MIDI list received
ListBytes == {1, HighBit + 1, NoteOn}
StaleBytes == {GarbageByte, HighBit + 1}
StaleLen == 6               \* bytes of the buffer after those received

InitBounds ==
    /\ ep = [e \in Endpoints |-> Constructed(0)]
    /\ ctrlQ = [e \in Endpoints |-> <<>>]
    /\ dataQ = [e \in Endpoints |-> <<>>]
    /\ hist = NoHist
    /\ thr = NoThr
    /\ turn = "A"
    /\ \E list \in SeqsUpTo(ListBytes, MaxList), stale \in StaleBytes,
          d \in {-1, 0, 1}, z \in BOOLEAN :
          /\ Len(list) + d >= 0
          /\ last = [op |-> "received", PtrListeMIDI |-> list \o
                                          [i \in 1..StaleLen |-> stale],
                     received |-> Len(list), TailleListeMIDI |-> Len(list) + d,
                     PresenceFirstDelta |-> z, CtrByteMIDI |-> 0]

BoundsDecode ==
    /\ last.op = "received"
    /\ last' = [last EXCEPT !.op = "ProcessIncomingRTP",
                            !.CtrByteMIDI =
                                LastCtrByteMIDI(Call("A"), last.PtrListeMIDI,
                                                last.TailleListeMIDI,
                                                last.PresenceFirstDelta)]
    /\ UNCHANGED <<ep, ctrlQ, dataQ, hist, thr, turn>>

NextBounds == BoundsDecode

SpecBounds == InitBounds /\ [][NextBounds]_vars

(* C38 Decoder bounds: ProcessIncomingRTP, GetDeltaTime and                *)
(* GenerateMIDIEvent read no byte at an offset at or beyond the declared   *)
(* length of the MIDI list, nor beyond the bytes received, and GetDeltaTime*)
(* consumes at most 4 bytes.                                               *)
C38_DecoderBounds ==
    /\ last.op = "ProcessIncomingRTP" =>
          /\ last.CtrByteMIDI <= last.TailleListeMIDI
          /\ last.CtrByteMIDI <= last.received
    /\ \A c \in 0..last.received :
          GetDeltaTime(last.PtrListeMIDI, c, FALSE).ByteCtr - c <= 4

-----------------------------------------------------------------------------
(* SpecSyncLoss: endpoint A is an initiator whose partner follows the      *)
(* handshake over a network that can lose any datagram: between two calls  *)
(* of RunSession, the answer the partner owes in A's state arrives or      *)
(* nothing does.  The application calls RunSession again and again, which  *)
(* the fairness condition on SyncTick states; the clock is observed        *)
(* modulo ClockModulus, so that a call always changes the state.  last     *)
(* holds the last call of RunSession: the state it began in, what it read  *)
(* and what it sent.                                                       *)
SyncLossArrivals(s) ==
    IF ~CanReceive("A") THEN {<<<<>>, <<>>>>}
    ELSE {<<<<>>, <<>>>>} \cup PartnerSends(s)

SyncInitiate ==
    /\ DoInitiateSession("A", TRUE, TRUE)
    /\ last' = NoLast
    /\ UNCHANGED <<hist, thr, turn>>

SyncTick ==
    /\ \E io \in SyncLossArrivals(ep["A"]) :
          /\ TickEnabled(io)
          /\ DoRunSessionObserved("A", io[1], io[2], ClockModulus)
    /\ UNCHANGED <<hist, thr, turn>>

NextSyncLoss ==
    \/ SyncInitiate
    \/ SyncTick

SpecSyncLoss == Init /\ [][NextSyncLoss]_vars /\ WF_vars(SyncTick)

(* the last call of RunSession began in CLOCK_SYNC1 and sent a CK count 0 *)
ResentCK0 ==
    /\ last.op = "RunSession"
    /\ last.pre = SESSION_CLOCK_SYNC1
    /\ \E i \in 1..Len(last.sent) :
          last.sent[i].cmd = "CK" /\ last.sent[i].count = 0

(* the last call of RunSession began in CLOCK_SYNC1 and read a CK count 1 *)
ReceivedCK1 ==
    /\ last.op = "RunSession"
    /\ last.pre = SESSION_CLOCK_SYNC1
    /\ \E i \in 1..Len(last.rcvd) :
          last.rcvd[i].cmd = "CK" /\ last.rcvd[i].count = 1

(* C34 No handshake deadlock: an initiator in CLOCK_SYNC1 that receives no *)
(* CK count 1 does not stay in CLOCK_SYNC1 forever: as RunSession keeps    *)
(* being called, it eventually sends CK count 0 again or is back in        *)
(* INVITE_CTRL.                                                            *)
C34_NoHandshakeDeadlock ==
    (ep["A"].IsInitiatorNode /\ ep["A"].SessionState = SESSION_CLOCK_SYNC1)
        ~> \/ ResentCK0
           \/ ReceivedCK1
           \/ ep["A"].SessionState = SESSION_INVITE_CONTROL

=============================================================================
